---- MODULE Spec2Model ----
(***************************************************************************)
(* Model of the Sapiens_MultiAgente file validation subsystem              *)
(* (tools/security_validator.py, class AcademicSecurityValidator).         *)
(*                                                                         *)
(* Strings that the code inspects character by character (paths and        *)
(* extensions) are sequences of one-character strings, so that             *)
(* Path(...).suffix, str.lower() and str.endswith() are computed as the    *)
(* code computes them.  The file system and the third-party libraries      *)
(* (magic, pandas, hashlib) are the environment: a file is a record of     *)
(* what they report about it.  The file system does not change during a    *)
(* call.  The "timestamp" entry of the result is not modelled.             *)
(***************************************************************************)
EXTENDS Integers, Sequences, FiniteSets, TLC

(***************************************************************************)
(* Bounds of the model.                                                    *)
(***************************************************************************)
MaxLinhas == 10
MaxColunas == 2
MaxArquivos == 2

(***************************************************************************)
(* Program constants.                                                      *)
(***************************************************************************)
MaxFileSizeMbPadrao == 100
BytesPorMb == 1048576
LimiteMuitosFaltantes == 50
LimiteFaltantesSignificativos == 20
MaxExemplosPii == 3

(***************************************************************************)
(* Strings as sequences of characters.                                     *)
(***************************************************************************)
Maiusculas ==
  <<"A","B","C","D","E","F","G","H","I","J","K","L","M",
    "N","O","P","Q","R","S","T","U","V","W","X","Y","Z">>

Minusculas ==
  <<"a","b","c","d","e","f","g","h","i","j","k","l","m",
    "n","o","p","q","r","s","t","u","v","w","x","y","z">>

\* str.lower() on one character.
LowerChar(c) ==
  IF \E i \in 1..Len(Maiusculas) : Maiusculas[i] = c
  THEN Minusculas[CHOOSE i \in 1..Len(Maiusculas) : Maiusculas[i] = c]
  ELSE c

\* str.lower()
Lower(s) == [i \in 1..Len(s) |-> LowerChar(s[i])]

\* str.rfind(c), 1-based; 0 when c does not occur (Python's -1).
RFind(s, c) ==
  IF \E i \in 1..Len(s) : s[i] = c
  THEN CHOOSE i \in 1..Len(s) : s[i] = c /\ \A j \in (i+1)..Len(s) : s[j] # c
  ELSE 0

\* str.endswith(suf)
EndsWith(s, suf) ==
  /\ Len(suf) <= Len(s)
  /\ SubSeq(s, Len(s) - Len(suf) + 1, Len(s)) = suf

\* PurePath.name: the final path component.
Nome(caminho) == SubSeq(caminho, RFind(caminho, "/") + 1, Len(caminho))

\* PurePath.suffix: the part of the name from its last dot, when that dot is
\* neither the first nor the last character of the name.
Suffix(caminho) ==
  LET n == Nome(caminho)
      j == RFind(n, ".")
  IN  IF 1 < j /\ j < Len(n) THEN SubSeq(n, j, Len(n)) ELSE <<>>

ExtCsv  == <<".","c","s","v">>
ExtXlsx == <<".","x","l","s","x">>
ExtXls  == <<".","x","l","s">>
ExtPdf  == <<".","p","d","f">>
ExtDocx == <<".","d","o","c","x">>
ExtTxt  == <<".","t","x","t">>
ExtExe  == <<".","e","x","e">>
ExtBat  == <<".","b","a","t">>
ExtCmd  == <<".","c","m","d">>
ExtScr  == <<".","s","c","r">>
ExtCom  == <<".","c","o","m">>
ExtPif  == <<".","p","i","f">>


(***************************************************************************)
(* Dictionaries: functions from keys to values.                            *)
(***************************************************************************)
DictVazio == [k \in {} |-> 0]

\* dict.update(upd), and {**inf, **upd}
Atualizar(inf, upd) ==
  [k \in DOMAIN inf \cup DOMAIN upd |-> IF k \in DOMAIN upd THEN upd[k] ELSE inf[k]]

\* list.extend
Extend(lista, outra) == lista \o outra

(***************************************************************************)
(* AcademicSecurityValidator.__init__: the default configuration merged    *)
(* with the caller's.                                                      *)
(***************************************************************************)
MimeCsv == "text/csv"
MimeExecutavel == "application/x-dosexec"

config_padrao ==
  [ max_file_size_mb   |-> MaxFileSizeMbPadrao,
    allowed_extensions |-> {ExtCsv, ExtXlsx, ExtXls, ExtPdf, ExtDocx, ExtTxt},
    blocked_extensions |-> {ExtExe, ExtBat, ExtCmd, ExtScr, ExtCom, ExtPif},
    validate_pii       |-> TRUE,
    allowed_mime_types |-> { "text/csv",
                             "application/vnd.openxmlformats-officedocument.spreadsheetml.sheet",
                             "application/vnd.ms-excel",
                             "application/pdf",
                             "application/vnd.openxmlformats-officedocument.wordprocessingml.document",
                             "text/plain" } ]

\* The configurations a caller passes to the constructor in this model: none,
\* an allow-list that also holds a blocked extension and the empty extension,
\* and a lower size ceiling with the PII scan switched off.
ConfigsUsuario ==
  { DictVazio,
    [allowed_extensions |-> config_padrao.allowed_extensions \cup {ExtExe, <<>>}],
    [max_file_size_mb |-> MaxFileSizeMbPadrao \div 2, validate_pii |-> FALSE] }

Mescla(usuario) == Atualizar(config_padrao, usuario)

Configs == {Mescla(u) : u \in ConfigsUsuario}

\* The order of the keys of pii_patterns.
pii_patterns ==
  <<"cpf", "telefone", "email", "cep", "rg", "matricula", "nome_completo">>

(***************************************************************************)
(* The files of the model.  tipo says what the operating system reports    *)
(* for the path argument:                                                  *)
(*   nao_str    the argument is None (os.path.exists raises TypeError)     *)
(*   descritor  the argument is an open file descriptor number             *)
(*   ausente    no such path                                               *)
(*   diretorio  a directory                                                *)
(*   regular    a readable regular file                                    *)
(*   ilegivel   a regular file that cannot be opened for reading           *)
(* mime is what magic detects, pii the number of matches of each PII       *)
(* pattern in the text, tabela what pandas parses, conteudo the bytes.     *)
(***************************************************************************)
CaminhoCsv    == <<"a",".","c","s","v">>
CaminhoCSV    == <<"B",".","C","S","V">>
CaminhoXlsx   == <<"c",".","x","l","s","x">>
CaminhoPdf    == <<"d",".","p","d","f">>
CaminhoExe    == <<"e",".","E","x","e">>
CaminhoZip    == <<"f",".","z","i","p">>
CaminhoOculto == <<".","c","s","v">>
CaminhoEmDir  == <<"g",".","e","x","e","/","h",".","t","x","t">>

Caminhos ==
  { CaminhoCsv, CaminhoCSV, CaminhoXlsx, CaminhoPdf, CaminhoExe, CaminhoZip,
    CaminhoOculto, CaminhoEmDir }

Linhas == {0, 5, MaxLinhas}

TabelaIlegivel ==
  [parse_ok |-> FALSE, linhas |-> 0, colunas |-> 0, vazias |-> 0, duplicadas |-> <<>>]

Tabelas ==
  {TabelaIlegivel} \cup
  { [parse_ok |-> TRUE, linhas |-> l, colunas |-> c, vazias |-> v, duplicadas |-> d] :
      l \in Linhas, c \in 1..MaxColunas, v \in 0..(MaxLinhas * MaxColunas),
      d \in {<<>>, <<"x">>} }

\* A table cannot miss more cells than it has; the tables with a repeated
\* column name are those of 5 rows and 2 or more columns.
TabelasValidas ==
  { t \in Tabelas :
      \/ ~t.parse_ok
      \/ /\ t.vazias <= t.linhas * t.colunas
         /\ (t.duplicadas # <<>> => t.colunas >= 2 /\ t.linhas = 5) }

SemPii == [t \in {pii_patterns[i] : i \in 1..Len(pii_patterns)} |-> 0]

ContagensPii ==
  { SemPii,
    [SemPii EXCEPT !["cpf"] = MaxExemplosPii + 1, !["email"] = 1] }

Tamanhos(max_mb) ==
  { 1024,
    (max_mb * 4 * BytesPorMb) \div 5,
    (max_mb * 4 * BytesPorMb) \div 5 + 1,
    max_mb * BytesPorMb,
    max_mb * BytesPorMb + 1,
    max_mb * BytesPorMb + BytesPorMb \div 8,
    (max_mb \div 2) * BytesPorMb }

Arquivo(t, c, s, m, p, tb) ==
  [tipo |-> t, caminho |-> c, tamanho_bytes |-> s, mime |-> m, pii |-> p,
   tabela |-> tb, conteudo |-> <<c, s>>]

EhTabular(c) ==
  \/ EndsWith(Lower(c), ExtCsv)
  \/ EndsWith(Lower(c), ExtXlsx)
  \/ EndsWith(Lower(c), ExtXls)

Arquivos ==
  { Arquivo(t, <<>>, 0, MimeCsv, SemPii, TabelaIlegivel) : t \in {"nao_str", "descritor"} }
  \cup
  { Arquivo(t, c, 0, MimeCsv, SemPii, TabelaIlegivel) :
      t \in {"ausente", "diretorio"}, c \in Caminhos }
  \cup
  { Arquivo("ilegivel", c, s, MimeCsv, SemPii, TabelaIlegivel) :
      c \in Caminhos, s \in Tamanhos(MaxFileSizeMbPadrao) }
  \cup
  { a \in { Arquivo("regular", c, s, m, p, tb) :
              c \in Caminhos, s \in Tamanhos(MaxFileSizeMbPadrao),
              m \in {MimeCsv, MimeExecutavel}, p \in ContagensPii,
              tb \in TabelasValidas } :
      Lower(Suffix(a.caminho)) \in {ExtCsv, ExtXlsx, ExtXls} \/ a.tabela = TabelaIlegivel }

(***************************************************************************)
(* Number formatting.  A number printed with d decimals is modelled by the *)
(* integer of its last printed digit's unit (20.0 is 200 tenths, 100.13 is *)
(* 10013 hundredths); Python rounds an exactly representable half to even. *)
(***************************************************************************)
ArredondaMeioPar(num, den) ==
  LET q == num \div den
      r == num % den
  IN  IF 2 * r > den THEN q + 1
      ELSE IF 2 * r < den THEN q
      ELSE IF q % 2 = 0 THEN q ELSE q + 1

\* f"{tamanho_mb:.2f}" for tamanho_mb = bytes / (1024 * 1024), in hundredths.
FormataMb(bytes) ==
  (bytes \div BytesPorMb) * 100 + ArredondaMeioPar((bytes % BytesPorMb) * 100, BytesPorMb)

\* f"{percentual_vazio:.1f}" for percentual_vazio = (vazias / total) * 100, in
\* tenths.
FormataPercentual(vazias, total) == ArredondaMeioPar(vazias * 1000, total)

\* Mutant of _validar_basico: the allow-list is consulted first, and the
\* block-list only for an extension that is not allowed.
_validar_basico_PermitidaPrimeiro(arq, cfg) ==
  IF arq.tipo = "descritor"
  THEN [valido |-> FALSE,
        erros |-> <<[msg |-> "Erro na validacao basica", exc |-> "TypeError"]>>,
        informacoes |-> DictVazio]
  ELSE
  LET arquivo_ext == Lower(Suffix(arq.caminho)) IN
  IF arquivo_ext \notin cfg.allowed_extensions
  THEN [valido |-> FALSE,
        erros |-> <<[msg |-> IF arquivo_ext \in cfg.blocked_extensions
                             THEN "Extensao bloqueada" ELSE "Extensao nao permitida",
                     ext |-> arquivo_ext]>>,
        informacoes |-> DictVazio]
  ELSE IF arq.tipo \notin {"regular", "ilegivel"}
  THEN [valido |-> FALSE,
        erros |-> <<[msg |-> "Caminho nao e um arquivo valido"]>>,
        informacoes |-> DictVazio]
  ELSE [valido |-> TRUE,
        erros |-> <<>>,
        informacoes |-> [tamanho_bytes |-> arq.tamanho_bytes,
                         data_modificacao |-> "mtime",
                         extensao |-> arquivo_ext]]

(***************************************************************************)
(* _validar_basico                                                         *)
(***************************************************************************)
_validar_basico(arq, cfg) ==
  IF arq.tipo = "descritor"
  THEN \* Path(3) raises TypeError, caught by the except clause
       [valido |-> FALSE,
        erros |-> <<[msg |-> "Erro na validacao basica", exc |-> "TypeError"]>>,
        informacoes |-> DictVazio]
  ELSE
  LET arquivo_ext == Lower(Suffix(arq.caminho)) IN
  IF arquivo_ext \in cfg.blocked_extensions
  THEN [valido |-> FALSE,
        erros |-> <<[msg |-> "Extensao bloqueada", ext |-> arquivo_ext]>>,
        informacoes |-> DictVazio]
  ELSE IF arquivo_ext \notin cfg.allowed_extensions
  THEN [valido |-> FALSE,
        erros |-> <<[msg |-> "Extensao nao permitida", ext |-> arquivo_ext]>>,
        informacoes |-> DictVazio]
  ELSE IF arq.tipo \notin {"regular", "ilegivel"}
  THEN [valido |-> FALSE,
        erros |-> <<[msg |-> "Caminho nao e um arquivo valido"]>>,
        informacoes |-> DictVazio]
  ELSE [valido |-> TRUE,
        erros |-> <<>>,
        informacoes |-> [tamanho_bytes |-> arq.tamanho_bytes,
                         data_modificacao |-> "mtime",
                         extensao |-> arquivo_ext]]

(***************************************************************************)
(* _validar_mime_type                                                      *)
(***************************************************************************)
_validar_mime_type(arq, cfg) ==
  IF arq.tipo = "ilegivel"
  THEN \* magic cannot open the file: the except clause
       [valido |-> FALSE,
        erros |-> <<[msg |-> "Erro na deteccao MIME", exc |-> "PermissionError"]>>,
        avisos |-> <<>>]
  ELSE IF arq.mime \notin cfg.allowed_mime_types
  THEN [valido |-> FALSE,
        erros |-> <<[msg |-> "Tipo MIME nao permitido", mime |-> arq.mime]>>,
        avisos |-> <<>>]
  ELSE [valido |-> TRUE,
        erros |-> <<>>,
        avisos |-> <<[msg |-> "MIME type validado", mime |-> arq.mime]>>]

\* Mutant of _validar_tamanho: >= in place of > at the ceiling.
_validar_tamanho_MaiorOuIgual(arq, cfg) ==
  LET tamanho_bytes == arq.tamanho_bytes
      max_size == cfg.max_file_size_mb
  IN  IF tamanho_bytes >= max_size * BytesPorMb
      THEN [valido |-> FALSE,
            erros |-> <<[msg |-> "Arquivo muito grande",
                         tamanho_mb |-> FormataMb(tamanho_bytes),
                         maximo |-> max_size]>>,
            avisos |-> <<>>]
      ELSE IF 5 * tamanho_bytes > 4 * max_size * BytesPorMb
      THEN [valido |-> TRUE,
            erros |-> <<>>,
            avisos |-> <<[msg |-> "Arquivo grande",
                          tamanho_mb |-> FormataMb(tamanho_bytes),
                          limite |-> max_size]>>]
      ELSE [valido |-> TRUE, erros |-> <<>>, avisos |-> <<>>]

(***************************************************************************)
(* _validar_tamanho.  tamanho_mb = bytes / 2^20 is exact in floating       *)
(* point, so tamanho_mb > max_size is bytes > max_size * 2^20, and         *)
(* tamanho_mb > max_size * 0.8 is 5 * bytes > 4 * max_size * 2^20.         *)
(***************************************************************************)
_validar_tamanho(arq, cfg) ==
  LET tamanho_bytes == arq.tamanho_bytes
      max_size == cfg.max_file_size_mb
  IN  IF tamanho_bytes > max_size * BytesPorMb
      THEN [valido |-> FALSE,
            erros |-> <<[msg |-> "Arquivo muito grande",
                         tamanho_mb |-> FormataMb(tamanho_bytes),
                         maximo |-> max_size]>>,
            avisos |-> <<>>]
      ELSE IF 5 * tamanho_bytes > 4 * max_size * BytesPorMb
      THEN [valido |-> TRUE,
            erros |-> <<>>,
            avisos |-> <<[msg |-> "Arquivo grande",
                          tamanho_mb |-> FormataMb(tamanho_bytes),
                          limite |-> max_size]>>]
      ELSE [valido |-> TRUE, erros |-> <<>>, avisos |-> <<>>]

(***************************************************************************)
(* _validar_pii                                                            *)
(***************************************************************************)
Min(a, b) == IF a < b THEN a ELSE b

\* The findings, in the order of pii_patterns; exemplos holds the indices of
\* the first matches (matches[:3]).
PiiEncontrada(contagens) ==
  LET achado(i) == [tipo |-> pii_patterns[i],
                    quantidade |-> contagens[pii_patterns[i]],
                    exemplos |-> [k \in 1..Min(MaxExemplosPii, contagens[pii_patterns[i]]) |-> k]]
      F[i \in 0..Len(pii_patterns)] ==
        IF i = 0 THEN <<>>
        ELSE IF contagens[pii_patterns[i]] > 0 THEN Append(F[i-1], achado(i)) ELSE F[i-1]
  IN  F[Len(pii_patterns)]

_validar_pii(arq) ==
  IF arq.tipo = "ilegivel"
  THEN \* open() raises: the except clause
       [valido |-> TRUE, erros |-> <<>>,
        avisos |-> <<[msg |-> "Erro na validacao PII", exc |-> "PermissionError"]>>,
        pii_encontrada |-> <<>>]
  ELSE LET pii_encontrada == PiiEncontrada(arq.pii) IN
       [valido |-> TRUE, erros |-> <<>>,
        avisos |-> IF pii_encontrada # <<>>
                   THEN <<[msg |-> "Dados pessoais detectados",
                           tipos |-> [i \in 1..Len(pii_encontrada) |-> pii_encontrada[i].tipo]]>>
                   ELSE <<>>,
        pii_encontrada |-> pii_encontrada]

(***************************************************************************)
(* _validar_conteudo_dados.  percentual_vazio = (vazias / total) * 100 is  *)
(* not a number for a table with no cells (numpy's 0 / 0), and every       *)
(* comparison with it is false.  The "informacoes" entries of this and of  *)
(* the MIME and size sub-results are never read by validar_arquivo and are *)
(* left out.                                                               *)
(***************************************************************************)
\* Mutant of PercentualMaiorQue: >= in place of >.
PercentualMaiorOuIgual(vazias, total, limite) ==
  total # 0 /\ vazias * 100 >= limite * total

PercentualMaiorQue(vazias, total, limite) ==
  total # 0 /\ vazias * 100 > limite * total

\* Mutant of AvisosDadosFaltantes: two independent ifs in place of if / elif.
AvisosDadosFaltantes_DoisIfs(celulas_vazias, total_celulas) ==
  (IF PercentualMaiorQue(celulas_vazias, total_celulas, LimiteMuitosFaltantes)
   THEN <<[msg |-> "Muitos dados faltantes",
           percentual |-> FormataPercentual(celulas_vazias, total_celulas)]>>
   ELSE <<>>)
  \o
  (IF PercentualMaiorQue(celulas_vazias, total_celulas, LimiteFaltantesSignificativos)
   THEN <<[msg |-> "Dados faltantes significativos",
           percentual |-> FormataPercentual(celulas_vazias, total_celulas)]>>
   ELSE <<>>)

\* lines 270-274: the warning for the missing-cell percentage, if any
AvisosDadosFaltantes(celulas_vazias, total_celulas) ==
  IF PercentualMaiorQue(celulas_vazias, total_celulas, LimiteMuitosFaltantes)
  THEN <<[msg |-> "Muitos dados faltantes",
          percentual |-> FormataPercentual(celulas_vazias, total_celulas)]>>
  ELSE IF PercentualMaiorQue(celulas_vazias, total_celulas, LimiteFaltantesSignificativos)
  THEN <<[msg |-> "Dados faltantes significativos",
          percentual |-> FormataPercentual(celulas_vazias, total_celulas)]>>
  ELSE <<>>

_validar_conteudo_dados(arq) ==
  LET arquivo_ext == Lower(Suffix(arq.caminho)) IN
  IF arquivo_ext \notin {ExtCsv, ExtXlsx, ExtXls}
  THEN [valido |-> TRUE, erros |-> <<>>, avisos |-> <<>>]
  ELSE IF arq.tipo = "ilegivel" \/ ~arq.tabela.parse_ok
  THEN \* pd.read_csv / pd.read_excel raises: the except clause
       [valido |-> FALSE,
        erros |-> <<[msg |-> "Erro na validacao de conteudo",
                     exc |-> IF arq.tipo = "ilegivel" THEN "PermissionError"
                                                      ELSE "ParserError"]>>,
        avisos |-> <<>>]
  ELSE
  LET total_celulas == arq.tabela.linhas * arq.tabela.colunas
      celulas_vazias == arq.tabela.vazias
      colunas_duplicadas == arq.tabela.duplicadas
      duplicadas ==
        IF colunas_duplicadas # <<>>
        THEN <<[msg |-> "Colunas duplicadas encontradas", colunas |-> colunas_duplicadas]>>
        ELSE <<>>
  IN  [valido |-> TRUE, erros |-> <<>>,
       avisos |-> AvisosDadosFaltantes(celulas_vazias, total_celulas) \o duplicadas]

(***************************************************************************)
(* _calcular_hash: the digest of the bytes, or "" when the file cannot be  *)
(* read.  SHA-256 is modelled as collision-free: the digest names the      *)
(* bytes it was computed from.                                             *)
(***************************************************************************)
_calcular_hash(arq) ==
  IF arq.tipo = "ilegivel" THEN <<>> ELSE <<"sha256", arq.conteudo>>

(***************************************************************************)
(* validar_arquivo, one operator per step.  Each takes the result built so *)
(* far and gives the result after the step and the step that follows       *)
(* ("retornou": the function has returned).                                *)
(***************************************************************************)
ResultadoInicial(arq) ==
  [arquivo |-> arq.caminho, valido |-> TRUE, erros |-> <<>>, avisos |-> <<>>,
   informacoes |-> DictVazio]

\* Mutant of CapturaExcecao: the handler marks the result invalid and
\* forgets to record the error.
CapturaExcecao_SemErro(r, e) ==
  [pc |-> "retornou", r |-> [r EXCEPT !.valido = FALSE]]

\* except Exception as e (lines 121-124), then return resultado
CapturaExcecao(r, e) ==
  [pc |-> "retornou",
   r  |-> [r EXCEPT !.valido = FALSE,
                    !.erros = Append(@, [msg |-> "Erro durante validacao", exc |-> e])]]

PassoExistencia(r, arq) ==
  IF arq.tipo = "nao_str"
  THEN CapturaExcecao(r, "TypeError")
  ELSE IF arq.tipo = "ausente"
  THEN [pc |-> "retornou",
        r  |-> [r EXCEPT !.valido = FALSE,
                         !.erros = Append(@, [msg |-> "Arquivo nao encontrado"])]]
  ELSE [pc |-> "basico", r |-> r]

PassoBasico(r, arq, cfg) ==
  LET validacao_basica == _validar_basico(arq, cfg) IN
  IF ~validacao_basica.valido
  THEN [pc |-> "retornou",
        r  |-> [r EXCEPT !.valido = FALSE,
                         !.erros = Extend(@, validacao_basica.erros)]]
  ELSE [pc |-> "mime",
        r  |-> [r EXCEPT !.informacoes = Atualizar(@, validacao_basica.informacoes)]]

\* Mutant of PassoMime: a MIME failure returns at once.
PassoMime_ComRetorno(r, arq, cfg) ==
  LET mime_validation == _validar_mime_type(arq, cfg) IN
  IF ~mime_validation.valido
  THEN [pc |-> "retornou",
        r  |-> [r EXCEPT !.valido = FALSE, !.erros = Extend(@, mime_validation.erros)]]
  ELSE [pc |-> "tamanho",
        r  |-> [r EXCEPT !.avisos = Extend(@, mime_validation.avisos)]]

PassoMime(r, arq, cfg) ==
  LET mime_validation == _validar_mime_type(arq, cfg) IN
  [pc |-> "tamanho",
   r  |-> IF ~mime_validation.valido
          THEN [r EXCEPT !.valido = FALSE, !.erros = Extend(@, mime_validation.erros)]
          ELSE [r EXCEPT !.avisos = Extend(@, mime_validation.avisos)]]

\* Mutant of PassoTamanho: a size failure returns at once.
PassoTamanho_ComRetorno(r, arq, cfg) ==
  LET size_validation == _validar_tamanho(arq, cfg) IN
  IF ~size_validation.valido
  THEN [pc |-> "retornou",
        r  |-> [r EXCEPT !.valido = FALSE, !.erros = Extend(@, size_validation.erros)]]
  ELSE [pc |-> "pii",
        r  |-> [r EXCEPT !.avisos = Extend(@, size_validation.avisos)]]

PassoTamanho(r, arq, cfg) ==
  LET size_validation == _validar_tamanho(arq, cfg) IN
  [pc |-> "pii",
   r  |-> IF ~size_validation.valido
          THEN [r EXCEPT !.valido = FALSE, !.erros = Extend(@, size_validation.erros)]
          ELSE [r EXCEPT !.avisos = Extend(@, size_validation.avisos)]]

\* Mutant of PassoPii: a file in which personal data is found is rejected.
PassoPii_Bloqueante(r, arq, cfg) ==
  [pc |-> "conteudo",
   r  |-> IF cfg.validate_pii
          THEN LET pii_validation == _validar_pii(arq) IN
               [r EXCEPT !.valido = @ /\ pii_validation.pii_encontrada = <<>>,
                         !.erros = IF pii_validation.pii_encontrada = <<>>
                                   THEN @ ELSE Extend(@, pii_validation.avisos),
                         !.avisos = Extend(@, pii_validation.avisos),
                         !.informacoes =
                            Atualizar(@, [pii_encontrada |-> pii_validation.pii_encontrada])]
          ELSE r]

PassoPii(r, arq, cfg) ==
  [pc |-> "conteudo",
   r  |-> IF cfg.validate_pii
          THEN LET pii_validation == _validar_pii(arq) IN
               [r EXCEPT !.avisos = Extend(@, pii_validation.avisos),
                         !.informacoes =
                            Atualizar(@, [pii_encontrada |-> pii_validation.pii_encontrada])]
          ELSE r]

\* Mutant of PassoConteudo: a failure of the content check is reported as a
\* warning only.
PassoConteudo_SoAvisos(r, arq) ==
  [pc |-> "hash",
   r  |-> IF EhTabular(arq.caminho)
          THEN LET content_validation == _validar_conteudo_dados(arq) IN
               [r EXCEPT !.avisos = Extend(@, content_validation.erros \o
                                              content_validation.avisos)]
          ELSE r]

PassoConteudo(r, arq) ==
  [pc |-> "hash",
   r  |-> IF EhTabular(arq.caminho)
          THEN LET content_validation == _validar_conteudo_dados(arq)
                   r1 == IF ~content_validation.valido
                         THEN [r EXCEPT !.valido = FALSE,
                                        !.erros = Extend(@, content_validation.erros)]
                         ELSE r
               IN  [r1 EXCEPT !.avisos = Extend(@, content_validation.avisos)]
          ELSE r]

PassoHash(r, arq) ==
  [pc |-> "retornou",
   r  |-> [r EXCEPT !.informacoes = Atualizar(@, [hash_sha256 |-> _calcular_hash(arq)])]]

Passo(p, r, arq, cfg) ==
  CASE p = "existe"   -> PassoExistencia(r, arq)
    [] p = "basico"   -> PassoBasico(r, arq, cfg)
    [] p = "mime"     -> PassoMime(r, arq, cfg)
    [] p = "tamanho"  -> PassoTamanho(r, arq, cfg)
    [] p = "pii"      -> PassoPii(r, arq, cfg)
    [] p = "conteudo" -> PassoConteudo(r, arq)
    [] p = "hash"     -> PassoHash(r, arq)

(***************************************************************************)
(* State.                                                                  *)
(*   config     self.config of the validator, fixed at construction        *)
(*   pc         where the running validar_arquivo call is ("ocioso": no    *)
(*              call; "retornou": the call has returned resultado)         *)
(*   arquivo    the file the path argument of the call names               *)
(*   resultado  the local dictionary resultado of validar_arquivo          *)
(*   pc_multi   where the running validar_multiplos_arquivos call is       *)
(*              ("excecao": it has raised to its caller)                   *)
(*   lote       its argument arquivos                                      *)
(*   indice     the position of its for loop in lote                       *)
(*   resumo     its local dictionary resultado                             *)
(***************************************************************************)
VARIABLES config, pc, arquivo, resultado, pc_multi, lote, indice, resumo

(***************************************************************************)
(* The state of the CSV search tool (tools/csv_search_tool.py), one        *)
(* CSVSearchTool._run call at a time:                                      *)
(*   pc_busca       where the running _run call is                         *)
(*   consulta       its arguments, with the file csv_path names            *)
(*   df             its local DataFrame df                                 *)
(*   original_rows  its local original_rows                                *)
(*   resposta       the value it returned                                  *)
(***************************************************************************)
VARIABLES pc_busca, consulta, df, original_rows, resposta

(***************************************************************************)
(* The state of the audit logger (tools/academic_logger.py):               *)
(*   config_log      what _load_config returns: the content of             *)
(*                   logging_config.yaml, or {} when it cannot be read     *)
(*   loggers         the loggers of the logging module the code uses: the  *)
(*                   level of the root logger, and the level, handlers and *)
(*                   propagate flag of "sapiens_academico" and             *)
(*                   "sapiens_auditoria"                                   *)
(*   auditores       the AcademicAuditor objects constructed so far        *)
(*   registros       the calls made on the audit logger, in order: the     *)
(*                   severity method, the message and the extra fields     *)
(*   arquivo_audit   the lines of logs/auditoria_academica.jsonl           *)
(*   arquivo_log     the lines of logs/sapiens_academico.log               *)
(*   chamada         the last call: the method, the object, the nivel      *)
(*                   argument, and the value or the exception it gave its  *)
(*                   caller                                                *)
(***************************************************************************)
VARIABLES config_log, loggers, auditores, registros, arquivo_audit, arquivo_log,
          chamada

(***************************************************************************)
(* The state of a web process (web/app.py, or api/index.py on a            *)
(* serverless host) and of its threads:                                    *)
(*   servidor        the module the process serves ("nenhum": no web       *)
(*                   process)                                              *)
(*   relogio         the second datetime.now() last gave                   *)
(*   pedidos         the frames of the threads that entered a request      *)
(*                   handler or a method of the auditor, in order of       *)
(*                   arrival: the route, the position in its code, its     *)
(*                   arguments and locals, and the response or exception   *)
(*                   it ended with                                         *)
(*   analises_ativas the dictionary analises_ativas, analysis id to        *)
(*                   analise_info                                          *)
(*   workers         the frames of the analise_worker threads started,     *)
(*                   by analysis id                                        *)
(*   uploads         the files of UPLOAD_FOLDER, path to content           *)
(*   _lock           the thread holding self._lock of auditor_global, 0    *)
(*                   when it is free                                       *)
(*   aquisicoes      the threads that acquired _lock, in order (history)   *)
(***************************************************************************)
VARIABLES servidor, relogio, pedidos, analises_ativas, workers, uploads, _lock,
          aquisicoes

varsValidador == <<config, pc, arquivo, resultado, pc_multi, lote, indice, resumo>>
varsBusca == <<pc_busca, consulta, df, original_rows, resposta>>
varsAuditor == <<config_log, loggers, auditores, registros, arquivo_audit,
                 arquivo_log, chamada>>
varsWeb == <<servidor, relogio, pedidos, analises_ativas, workers, uploads, _lock,
             aquisicoes>>

vars == <<varsValidador, varsBusca, varsAuditor, varsWeb>>

varsArquivo == <<pc, arquivo, resultado>>
varsMulti == <<pc_multi, lote, indice, resumo>>

NenhumArquivo == Arquivo("nenhum", <<>>, 0, MimeCsv, SemPii, TabelaIlegivel)

ResumoInicial(arquivos) ==
  [total_arquivos |-> Len(arquivos), arquivos_validos |-> 0, arquivos_invalidos |-> 0,
   resultados |-> <<>>, taxa_sucesso |-> <<>>]

\* The lists validar_multiplos_arquivos is called with: every list of at
\* most MaxArquivos of these files.
ArquivosDoLote ==
  { Arquivo("ausente", CaminhoCsv, 0, MimeCsv, SemPii, TabelaIlegivel),
    Arquivo("regular", CaminhoExe, 1024, MimeExecutavel, SemPii, TabelaIlegivel),
    Arquivo("regular", CaminhoPdf, 1024, MimeCsv, SemPii, TabelaIlegivel) }

Lotes == UNION { [1..n -> ArquivosDoLote] : n \in 0..MaxArquivos }

\* No validation is running.
ValidadorOcioso ==
  /\ pc = "ocioso"
  /\ arquivo = NenhumArquivo
  /\ resultado = ResultadoInicial(NenhumArquivo)
  /\ pc_multi = "ocioso"
  /\ lote = <<>>
  /\ indice = 0
  /\ resumo = ResumoInicial(<<>>)

\* A DataFrame: the column labels, the dtype of each column and the rows,
\* each row the cells of the columns in order.
DataFrame(colunas, dtypes, linhas) ==
  [colunas |-> colunas, dtypes |-> dtypes, linhas |-> linhas]

\* The arguments of _run (CSVSearchInput), csv_path as the file it names.
Consulta(arq, search_query, column_filters, numeric_filters, max_results, case_sensitive) ==
  [arquivo |-> arq, search_query |-> search_query,
   column_filters |-> column_filters, numeric_filters |-> numeric_filters,
   max_results |-> max_results, case_sensitive |-> case_sensitive]

\* What csv_path names: whether it exists and parses, the header and the
\* text of the fields of each line.
ArquivoCsv(tipo, colunas, linhas) == [tipo |-> tipo, colunas |-> colunas, linhas |-> linhas]

\* No search is running.
BuscaOciosa ==
  /\ pc_busca = "ocioso"
  /\ consulta = Consulta(ArquivoCsv("ausente", <<>>, <<>>), <<>>, <<>>, <<>>, 0, FALSE)
  /\ df = DataFrame(<<>>, <<>>, <<>>)
  /\ original_rows = 0
  /\ resposta = [tipo |-> "nenhuma"]

\* The loggers before tools/academic_logger.py is imported: the root logger
\* at the level raiz, and what logging.getLogger gives for a name not
\* configured yet, level NOTSET, no handler, propagate True.
LoggersIniciais(raiz) ==
  LET novo == [level |-> "NOTSET", handlers |-> <<>>, propagate |-> TRUE] IN
    [root |-> [novo EXCEPT !.level = raiz],
     sapiens_academico |-> novo,
     sapiens_auditoria |-> novo]

\* The method, the object (its position in auditores), the nivel argument,
\* and the exception or the value the caller got.
Chamada(metodo, auditor, nivel, excecao, valor) ==
  [metodo |-> metodo, auditor |-> auditor, nivel |-> nivel, excecao |-> excecao,
   valor |-> valor]

\* The process before tools/academic_logger.py is imported: no
\* AcademicAuditor exists, nothing was logged, the log files are empty.
SemAuditor ==
  /\ auditores = <<>>
  /\ registros = <<>>
  /\ arquivo_audit = <<>>
  /\ arquivo_log = <<>>
  /\ chamada = Chamada("nenhum", 0, "", "nenhuma", <<>>)

\* No web process: no request, no analysis, no upload, the lock free.
SemWeb ==
  /\ servidor = "nenhum"
  /\ relogio = 0
  /\ pedidos = <<>>
  /\ analises_ativas = DictVazio
  /\ workers = DictVazio
  /\ uploads = DictVazio
  /\ _lock = 0
  /\ aquisicoes = <<>>

Init ==
  /\ config \in Configs
  /\ ValidadorOcioso
  /\ BuscaOciosa
  /\ config_log = DictVazio
  /\ loggers = LoggersIniciais("WARNING")
  /\ SemAuditor
  /\ SemWeb

(***************************************************************************)
(* validar_arquivo                                                         *)
(***************************************************************************)
\* The call: lines 62-69.
Chamar(arq) ==
  /\ pc = "ocioso"
  /\ pc' = "existe"
  /\ arquivo' = arq
  /\ resultado' = ResultadoInicial(arq)

ChamarValidarArquivo ==
  /\ pc_multi = "ocioso"
  /\ pc = "ocioso"
  /\ \E arq \in Arquivos : Chamar(arq)
  /\ UNCHANGED <<varsBusca, varsAuditor, varsWeb, config, varsMulti>>

\* One step of the running call.
Avancar ==
  /\ LET n == Passo(pc, resultado, arquivo, config) IN
       /\ pc' = n.pc
       /\ resultado' = n.r
  /\ UNCHANGED <<varsBusca, varsAuditor, varsWeb, config, arquivo, varsMulti>>

\* lines 72-76
VerificarExistencia ==
  /\ pc = "existe"
  /\ Avancar

\* lines 78-85
ValidarBasico ==
  /\ pc = "basico"
  /\ Avancar

\* lines 87-93
ValidarMime ==
  /\ pc = "mime"
  /\ Avancar

\* lines 95-101
ValidarTamanho ==
  /\ pc = "tamanho"
  /\ Avancar

\* lines 103-107
ValidarPii ==
  /\ pc = "pii"
  /\ Avancar

\* lines 109-115
ValidarConteudo ==
  /\ pc = "conteudo"
  /\ Avancar

\* lines 117-119 and the return of line 126
CalcularHash ==
  /\ pc = "hash"
  /\ Avancar

\* The direct caller has the returned dictionary; the frame is gone.
Retornar ==
  /\ pc = "retornou"
  /\ pc_multi = "ocioso"
  /\ pc' = "ocioso"
  /\ arquivo' = NenhumArquivo
  /\ resultado' = ResultadoInicial(NenhumArquivo)
  /\ UNCHANGED <<varsBusca, varsAuditor, varsWeb, config, varsMulti>>

(***************************************************************************)
(* validar_multiplos_arquivos                                              *)
(***************************************************************************)
\* The call: lines 301-307.
ChamarValidarMultiplos ==
  /\ pc = "ocioso"
  /\ pc_multi = "ocioso"
  /\ \E arquivos \in Lotes :
       /\ lote' = arquivos
       /\ resumo' = ResumoInicial(arquivos)
  /\ indice' = 1
  /\ pc_multi' = "laco"
  /\ UNCHANGED <<varsBusca, varsAuditor, varsWeb, config, varsArquivo>>

\* for arquivo in arquivos: validacao = self.validar_arquivo(arquivo)
IterarChamada ==
  /\ pc_multi = "laco"
  /\ indice <= Len(lote)
  /\ Chamar(lote[indice])
  /\ pc_multi' = "validando"
  /\ UNCHANGED <<varsBusca, varsAuditor, varsWeb, config, lote, indice, resumo>>

\* lines 311-316, with the dictionary validar_arquivo returned
IterarColeta ==
  /\ pc_multi = "validando"
  /\ pc = "retornou"
  /\ resumo' = [resumo EXCEPT
                  !.resultados = Append(@, resultado),
                  !.arquivos_validos = IF resultado.valido THEN @ + 1 ELSE @,
                  !.arquivos_invalidos = IF resultado.valido THEN @ ELSE @ + 1]
  /\ indice' = indice + 1
  /\ pc_multi' = "laco"
  /\ pc' = "ocioso"
  /\ arquivo' = NenhumArquivo
  /\ resultado' = ResultadoInicial(NenhumArquivo)
  /\ UNCHANGED <<varsBusca, varsAuditor, varsWeb, config, lote>>

\* line 318: (arquivos_validos / total_arquivos) * 100 raises
\* ZeroDivisionError when the list is empty; nothing catches it.
CalcularTaxa ==
  /\ pc_multi = "laco"
  /\ indice > Len(lote)
  /\ IF resumo.total_arquivos = 0
     THEN /\ pc_multi' = "excecao"
          /\ UNCHANGED resumo
     ELSE /\ pc_multi' = "retornou"
          /\ resumo' = [resumo EXCEPT
                          !.taxa_sucesso = <<resumo.arquivos_validos * 100,
                                             resumo.total_arquivos>>]
  /\ UNCHANGED <<varsBusca, varsAuditor, varsWeb, config, varsArquivo, lote, indice>>

\* The caller has the summary, or the exception.
RetornarMultiplos ==
  /\ pc_multi \in {"retornou", "excecao"}
  /\ pc_multi' = "ocioso"
  /\ lote' = <<>>
  /\ indice' = 0
  /\ resumo' = ResumoInicial(<<>>)
  /\ UNCHANGED <<varsBusca, varsAuditor, varsWeb, config, varsArquivo>>

Next ==
  \/ ChamarValidarArquivo
  \/ VerificarExistencia
  \/ ValidarBasico
  \/ ValidarMime
  \/ ValidarTamanho
  \/ ValidarPii
  \/ ValidarConteudo
  \/ CalcularHash
  \/ Retornar
  \/ ChamarValidarMultiplos
  \/ IterarChamada
  \/ IterarColeta
  \/ CalcularTaxa
  \/ RetornarMultiplos

Spec == Init /\ [][Next]_vars

(***************************************************************************)
(* Vocabulary of the properties.                                           *)
(***************************************************************************)
Mensagens(lista) == {lista[i].msg : i \in 1..Len(lista)}

Retornou == pc = "retornou"

\* The path names something that exists in the file system.
Existe == arquivo.tipo \in {"diretorio", "regular", "ilegivel"}

ExtensaoDoArquivo == Lower(Suffix(arquivo.caminho))

\* The step of validar_arquivo an error message comes from.
PassoDoErro(e) ==
  CASE e.msg = "Arquivo nao encontrado" -> "existe"
    [] e.msg \in {"Extensao bloqueada", "Extensao nao permitida",
                  "Caminho nao e um arquivo valido", "Erro na validacao basica"} -> "basico"
    [] e.msg \in {"Tipo MIME nao permitido", "Erro na deteccao MIME"} -> "mime"
    [] e.msg \in {"Arquivo muito grande", "Erro na validacao de tamanho"} -> "tamanho"
    [] e.msg = "Erro na validacao de conteudo" -> "conteudo"
    [] OTHER -> "excecao"

PassosComErro(r) == {PassoDoErro(r.erros[i]) : i \in 1..Len(r.erros)}

\* The file passes the existence and basic checks under the configuration.
PassaBasico ==
  /\ arquivo.tipo \in {"regular", "ilegivel"}
  /\ ExtensaoDoArquivo \notin config.blocked_extensions
  /\ ExtensaoDoArquivo \in config.allowed_extensions

AvisosFaltantes(r) ==
  SelectSeq(r.avisos, LAMBDA a : a.msg \in {"Muitos dados faltantes",
                                            "Dados faltantes significativos"})

\* A readable file pandas parses, which reaches the content check.
TabelaAnalisada ==
  /\ PassaBasico
  /\ arquivo.tipo = "regular"
  /\ ExtensaoDoArquivo \in {ExtCsv, ExtXlsx, ExtXls}
  /\ arquivo.tabela.parse_ok

TotalCelulas == arquivo.tabela.linhas * arquivo.tabela.colunas

(***************************************************************************)
(* C1.  At every point of validar_arquivo, and so in every result it       *)
(* returns on every path and in every result collected by                  *)
(* validar_multiplos_arquivos, valido is false exactly when erros is not   *)
(* empty; a step that only adds warnings therefore leaves valido as it     *)
(* was.                                                                    *)
(***************************************************************************)
ValidoSseSemErros(r) == (~r.valido) <=> (r.erros # <<>>)

C1_ValidoSseSemErros ==
  /\ ValidoSseSemErros(resultado)
  /\ \A i \in 1..Len(resumo.resultados) : ValidoSseSemErros(resumo.resultados[i])

\* A rejected result that also carries warnings has been returned.
C1_Witness ==
  /\ Retornou
  /\ ~resultado.valido
  /\ resultado.avisos # <<>>
  /\ resultado.erros # <<>>

(***************************************************************************)
(* C2 (as claimed).  Every step short-circuits, so a returned result never *)
(* carries errors from two different steps.                                *)
(***************************************************************************)
C2_Original == Retornou => Cardinality(PassosComErro(resultado)) <= 1

(***************************************************************************)
(* C2 (amended).  Only the existence check and the basic check             *)
(* short-circuit: an error recorded by either returns at once.  The MIME,  *)
(* size, PII and content steps never return; whatever they record, the     *)
(* next step runs.                                                         *)
(***************************************************************************)
C2_SoExistenciaEBasicoInterrompem ==
  [][ /\ (pc \in {"existe", "basico"} /\ resultado'.erros # resultado.erros
            => pc' = "retornou")
      /\ (pc = "mime" => pc' = "tamanho")
      /\ (pc = "tamanho" => pc' = "pii")
      /\ (pc = "pii" => pc' = "conteudo")
      /\ (pc = "conteudo" => pc' = "hash") ]_vars

\* A returned result carries a MIME error together with a size error.
C2_Witness ==
  /\ Retornou
  /\ {"mime", "tamanho"} \subseteq PassosComErro(resultado)

(***************************************************************************)
(* C3.  For every existing path whose lower-cased extension is in the      *)
(* block-list, the returned result has valido = false and an error         *)
(* "Extensao bloqueada" with that extension, whatever the MIME type and    *)
(* even when the extension is also in the allow-list.                      *)
(***************************************************************************)
C3_ListaDeBloqueioPrevalece ==
  (Retornou /\ Existe /\ ExtensaoDoArquivo \in config.blocked_extensions)
    => /\ ~resultado.valido
       /\ \E i \in 1..Len(resultado.erros) :
            /\ resultado.erros[i].msg = "Extensao bloqueada"
            /\ resultado.erros[i].ext = ExtensaoDoArquivo

\* A readable file of an allowed MIME type whose extension is in both lists
\* has been rejected.
C3_Witness ==
  /\ Retornou
  /\ arquivo.tipo = "regular"
  /\ arquivo.mime \in config.allowed_mime_types
  /\ ExtensaoDoArquivo \in config.blocked_extensions \cap config.allowed_extensions
  /\ ~resultado.valido

(***************************************************************************)
(* C4 (as claimed).  Every result returned for an existing file holds      *)
(* informacoes.hash_sha256.                                                *)
(***************************************************************************)
C4_Original ==
  (Retornou /\ Existe) => "hash_sha256" \in DOMAIN resultado.informacoes

(***************************************************************************)
(* C4 (amended).  A returned result holds informacoes.hash_sha256 exactly  *)
(* when the file passed the existence and basic checks: results rejected   *)
(* by the MIME, size or content checks hold it, results rejected by the    *)
(* existence or basic (extension, regular file) checks do not.             *)
(***************************************************************************)
C4_HashSseBasicoPassou ==
  Retornou =>
    ( "hash_sha256" \in DOMAIN resultado.informacoes
        <=> PassosComErro(resultado) \cap {"existe", "basico", "excecao"} = {} )

\* A result rejected by the MIME check and by the size check holds the digest.
C4_Witness ==
  /\ Retornou
  /\ PassosComErro(resultado) = {"mime", "tamanho"}
  /\ "hash_sha256" \in DOMAIN resultado.informacoes
  /\ resultado.informacoes.hash_sha256 # <<>>

(***************************************************************************)
(* C5 (as claimed).  An exception in the tabular content check never adds  *)
(* an error: no returned result carries an error of the content step.      *)
(***************************************************************************)
C5_Original == Retornou => "conteudo" \notin PassosComErro(resultado)

(***************************************************************************)
(* C5 (amended).  An exception raised in the tabular content check (the    *)
(* file cannot be read or parsed) is a hard failure: for a file that       *)
(* reaches the content check, the result has valido = false and the error  *)
(* "Erro na validacao de conteudo" exactly when the file has a .csv, .xlsx *)
(* or .xls extension and cannot be read or parsed.  Only the existence,    *)
(* basic, MIME, size and content steps and a caught exception add errors.  *)
(***************************************************************************)
C5_FalhaDeParseReprova ==
  Retornou =>
    /\ PassaBasico =>
         ( "conteudo" \in PassosComErro(resultado)
             <=> /\ ExtensaoDoArquivo \in {ExtCsv, ExtXlsx, ExtXls}
                 /\ (arquivo.tipo = "ilegivel" \/ ~arquivo.tabela.parse_ok) )
    /\ ("conteudo" \in PassosComErro(resultado) => ~resultado.valido)

\* A readable file that passes every other check is rejected only because
\* pandas cannot parse it.
C5_Witness ==
  /\ Retornou
  /\ arquivo.tipo = "regular"
  /\ ~arquivo.tabela.parse_ok
  /\ PassosComErro(resultado) = {"conteudo"}
  /\ ~resultado.valido

\* The file passes the MIME and size checks under the configuration.
PassaMimeETamanho ==
  /\ arquivo.mime \in config.allowed_mime_types
  /\ arquivo.tamanho_bytes <= config.max_file_size_mb * BytesPorMb

(***************************************************************************)
(* C6 (as claimed).  A parsed table with exactly 20% of its cells missing, *)
(* in a file that passes the other checks, is returned with valido = true  *)
(* and a warning that prints the percentage as 20.0.                       *)
(***************************************************************************)
C6_Original ==
  (Retornou /\ TabelaAnalisada /\ PassaMimeETamanho
     /\ TotalCelulas > 0 /\ 5 * arquivo.tabela.vazias = TotalCelulas)
    => /\ resultado.valido
       /\ \E i \in 1..Len(resultado.avisos) :
            /\ resultado.avisos[i].msg \in {"Muitos dados faltantes",
                                            "Dados faltantes significativos"}
            /\ resultado.avisos[i].percentual = 200

(***************************************************************************)
(* C6 (amended).  The lower threshold is strict.  A parsed table with      *)
(* exactly 20% of its cells missing, in a file that passes the other       *)
(* checks, is returned with valido = true and no missing-data warning; a   *)
(* table with more than 20% and at most 50% missing is returned with       *)
(* valido = true and the single warning "Dados faltantes significativos"   *)
(* that prints its percentage with one decimal.                            *)
(***************************************************************************)
C6_VinteNaoAvisa ==
  (Retornou /\ TabelaAnalisada /\ PassaMimeETamanho /\ TotalCelulas > 0)
    => LET v == arquivo.tabela.vazias
           av == AvisosFaltantes(resultado)
       IN  /\ (5 * v = TotalCelulas => resultado.valido /\ av = <<>>)
           /\ (5 * v > TotalCelulas /\ 2 * v <= TotalCelulas
                 => /\ resultado.valido
                    /\ av = <<[msg |-> "Dados faltantes significativos",
                               percentual |-> FormataPercentual(v, TotalCelulas)]>>)

\* A table of 10 rows with exactly 20% of its cells missing has been
\* validated and accepted.
C6_Witness ==
  /\ Retornou
  /\ TabelaAnalisada
  /\ arquivo.tabela.linhas = 10
  /\ 5 * arquivo.tabela.vazias = TotalCelulas
  /\ resultado.valido
  /\ AvisosFaltantes(resultado) = <<>>

(***************************************************************************)
(* C7.  For every file pandas parses, whatever its missing-cell            *)
(* percentage, the content check adds no error; above 50% the result       *)
(* carries exactly one missing-data warning, "Muitos dados faltantes";     *)
(* above 20% and up to 50% exactly one, "Dados faltantes significativos";  *)
(* otherwise none.                                                         *)
(***************************************************************************)
C7_FaltantesNuncaReprovam ==
  (Retornou /\ TabelaAnalisada)
    => LET v == arquivo.tabela.vazias
           av == AvisosFaltantes(resultado)
       IN  /\ "conteudo" \notin PassosComErro(resultado)
           /\ (PassaMimeETamanho => resultado.valido)
           /\ (TotalCelulas > 0 /\ 2 * v > TotalCelulas
                 => Len(av) = 1 /\ av[1].msg = "Muitos dados faltantes")
           /\ (TotalCelulas > 0 /\ 2 * v <= TotalCelulas /\ 5 * v > TotalCelulas
                 => Len(av) = 1 /\ av[1].msg = "Dados faltantes significativos")
           /\ (TotalCelulas = 0 \/ 5 * v <= TotalCelulas => av = <<>>)

\* A table in which every cell is missing has been validated and accepted.
C7_Witness ==
  /\ Retornou
  /\ TabelaAnalisada
  /\ TotalCelulas > 0
  /\ arquivo.tabela.vazias = TotalCelulas
  /\ resultado.valido
  /\ "Muitos dados faltantes" \in Mensagens(resultado.avisos)

(***************************************************************************)
(* C8.  For every regular file that passes the extension check and whose   *)
(* size is above max_file_size_mb, the returned result has valido = false  *)
(* and an error "Arquivo muito grande" that holds the size printed with    *)
(* two decimals and the maximum; a file of exactly the maximum size gets   *)
(* no size error.                                                          *)
(***************************************************************************)
C8_AcimaDoMaximoReprova ==
  (Retornou /\ PassaBasico)
    => LET grandes == SelectSeq(resultado.erros, LAMBDA e : e.msg = "Arquivo muito grande")
           limite == config.max_file_size_mb * BytesPorMb
       IN  /\ arquivo.tamanho_bytes > limite
             => /\ ~resultado.valido
                /\ grandes = <<[msg |-> "Arquivo muito grande",
                                tamanho_mb |-> FormataMb(arquivo.tamanho_bytes),
                                maximo |-> config.max_file_size_mb]>>
           /\ arquivo.tamanho_bytes <= limite
                => "tamanho" \notin PassosComErro(resultado)

\* A file one byte above the ceiling, of an allowed MIME type, has been
\* rejected.
C8_Witness ==
  /\ Retornou
  /\ PassaBasico
  /\ arquivo.mime \in config.allowed_mime_types
  /\ arquivo.tamanho_bytes = config.max_file_size_mb * BytesPorMb + 1
  /\ PassosComErro(resultado) = {"tamanho"}

(***************************************************************************)
(* C9.  The PII step is advisory: whatever the scan finds, and when the    *)
(* file cannot be read, it leaves valido and erros as they were, only      *)
(* appends to avisos, and changes nothing of informacoes but the entry     *)
(* pii_encontrada.                                                         *)
(***************************************************************************)
C9_PiiSoAvisa ==
  [][ pc = "pii" =>
        /\ resultado'.valido = resultado.valido
        /\ resultado'.erros = resultado.erros
        /\ Len(resultado'.avisos) >= Len(resultado.avisos)
        /\ SubSeq(resultado'.avisos, 1, Len(resultado.avisos)) = resultado.avisos
        /\ DOMAIN resultado'.informacoes \subseteq
             DOMAIN resultado.informacoes \cup {"pii_encontrada"}
        /\ \A k \in DOMAIN resultado.informacoes \ {"pii_encontrada"} :
             resultado'.informacoes[k] = resultado.informacoes[k] ]_vars

\* A file in which personal data was found has been returned as valid, with
\* the warning and the findings.
C9_Witness ==
  /\ Retornou
  /\ resultado.valido
  /\ "Dados pessoais detectados" \in Mensagens(resultado.avisos)
  /\ "pii_encontrada" \in DOMAIN resultado.informacoes
  /\ resultado.informacoes.pii_encontrada # <<>>

(***************************************************************************)
(* C10.  Neither validar_arquivo nor validar_multiplos_arquivos raises:    *)
(* every call of validar_multiplos_arquivos, for every list of paths,      *)
(* returns its summary.                                                    *)
(***************************************************************************)
C10_NuncaLanca == pc_multi # "excecao"

(***************************************************************************)
(* tools/csv_search_tool.py: CSVSearchTool.                                *)
(*                                                                         *)
(* A cell of a DataFrame is a number, NaN or a Python string; a column has *)
(* the dtype int64, float64 or object.  Numbers are the non-negative       *)
(* integers, which int64 and float64 columns both hold exactly; the dtype  *)
(* decides how astype(str) prints them.                                    *)
(***************************************************************************)
CelNum(n) == [t |-> "num", n |-> n]
CelStr(texto) == [t |-> "str", s |-> texto]
NaN == [t |-> "nan"]

Digitos == <<"0", "1", "2", "3", "4", "5", "6", "7", "8", "9">>

\* str(n) of a non-negative int
RECURSIVE StrInt(_)
StrInt(n) ==
  IF n < 10 THEN <<Digitos[n + 1]>>
  ELSE StrInt(n \div 10) \o <<Digitos[(n % 10) + 1]>>

\* The number a run of decimal digits writes.
RECURSIVE ValorDecimal(_)
ValorDecimal(texto) ==
  IF texto = <<>> THEN 0
  ELSE 10 * ValorDecimal(SubSeq(texto, 1, Len(texto) - 1))
       + (CHOOSE d \in 0..9 : Digitos[d + 1] = texto[Len(texto)])

\* float(texto), for the texts of the model: a run of decimal digits is the
\* number it writes, every other text here (empty, or holding "=", "~", "!"
\* or a letter) raises ValueError.
ParseFloat(texto) ==
  IF texto # <<>> /\ \A i \in 1..Len(texto) : \E d \in 1..10 : Digitos[d] = texto[i]
  THEN [ok |-> TRUE, valor |-> ValorDecimal(texto)]
  ELSE [ok |-> FALSE, valor |-> 0]

\* str.startswith
StartsWith(texto, prefixo) ==
  /\ Len(prefixo) <= Len(texto)
  /\ SubSeq(texto, 1, Len(prefixo)) = prefixo

\* The positions where sub occurs in texto.
Ocorrencias(texto, sub) ==
  {i \in 1..(Len(texto) - Len(sub) + 1) : SubSeq(texto, i, i + Len(sub) - 1) = sub}

\* sub in texto; with a pattern free of regular-expression metacharacters,
\* also Series.str.contains(sub)
Contains(texto, sub) == Ocorrencias(texto, sub) # {}

\* texto.split(sep)[1], when sep occurs in texto
SplitSegundo(texto, sep) ==
  LET primeira(t) == CHOOSE m \in Ocorrencias(t, sep) :
                       \A o \in Ocorrencias(t, sep) : m <= o
      resto == SubSeq(texto, primeira(texto) + Len(sep), Len(texto))
  IN IF Contains(resto, sep) THEN SubSeq(resto, 1, primeira(resto) - 1) ELSE resto

\* pd.api.types.is_numeric_dtype
is_numeric_dtype(dtype) == dtype \in {"int64", "float64"}

\* str(v) of one cell, as Series.astype(str) gives it
AsTypeStr(cel, dtype) ==
  CASE cel.t = "nan" -> <<"n", "a", "n">>
    [] cel.t = "str" -> cel.s
    [] cel.t = "num" -> IF dtype = "float64" THEN StrInt(cel.n) \o <<".", "0">>
                        ELSE StrInt(cel.n)

\* pd.to_numeric(..., errors='coerce') of one cell
ToNumericCel(cel) ==
  CASE cel.t = "str" -> IF ParseFloat(cel.s).ok THEN CelNum(ParseFloat(cel.s).valor)
                        ELSE NaN
    [] OTHER -> cel

\* The position of a column label in df.columns (column in df.columns holds).
PosicaoColuna(d, column) == CHOOSE j \in 1..Len(d.colunas) : d.colunas[j] = column

TemColuna(d, column) == \E j \in 1..Len(d.colunas) : d.colunas[j] = column

\* df[column] = pd.to_numeric(df[column], errors='coerce') (line 139): the
\* column becomes int64 when every cell parsed, float64 when some is NaN
\* or the frame has no row.
CoagirColuna(d, column) ==
  LET j == PosicaoColuna(d, column)
      novas == [i \in 1..Len(d.linhas) |->
                  [d.linhas[i] EXCEPT ![j] = ToNumericCel(d.linhas[i][j])]]
      inteira == /\ Len(novas) > 0
                 /\ \A i \in 1..Len(novas) : novas[i][j].t = "num"
  IN [d EXCEPT !.linhas = novas,
               !.dtypes[j] = IF inteira THEN "int64" ELSE "float64"]

\* Series <op> threshold for one cell; NaN compares False, except with !=
Compara(cel, op, threshold) ==
  IF cel.t # "num" THEN op = "!="
  ELSE CASE op = ">"  -> cel.n > threshold
         [] op = "<"  -> cel.n < threshold
         [] op = ">=" -> cel.n >= threshold
         [] op = "<=" -> cel.n <= threshold
         [] op = "==" -> cel.n = threshold
         [] op = "!=" -> cel.n # threshold

\* threshold = float(texto); df = df[df[column] <op> threshold], and the
\* except branch of lines 165-167 when float raises ValueError: continue
\* with df as it is.  df[mask] keeps the rows the mask holds for, in order,
\* and the dtypes.
FiltrarOuPular(d, column, op, texto) ==
  IF ParseFloat(texto).ok
  THEN [d EXCEPT !.linhas = SelectSeq(d.linhas, LAMBDA linha :
         Compara(linha[PosicaoColuna(d, column)], op, ParseFloat(texto).valor))]
  ELSE d

\* One iteration of the loop of _apply_numeric_filters (lines 135-167), the
\* branches in the order the source tests them.
_filtro_numerico(d, column, condition) ==
  IF ~TemColuna(d, column) THEN d
  ELSE
    LET convertido == IF is_numeric_dtype(d.dtypes[PosicaoColuna(d, column)])
                      THEN d ELSE CoagirColuna(d, column)
        apos(k) == SubSeq(condition, k + 1, Len(condition))
    IN IF StartsWith(condition, <<">">>)
         THEN FiltrarOuPular(convertido, column, ">", apos(1))
       ELSE IF StartsWith(condition, <<"<">>)
         THEN FiltrarOuPular(convertido, column, "<", apos(1))
       ELSE IF StartsWith(condition, <<">", "=">>)
         THEN FiltrarOuPular(convertido, column, ">=", apos(2))
       ELSE IF StartsWith(condition, <<"<", "=">>)
         THEN FiltrarOuPular(convertido, column, "<=", apos(2))
       ELSE IF StartsWith(condition, <<"=", "=">>)
         THEN FiltrarOuPular(convertido, column, "==", apos(2))
       ELSE IF Contains(condition, <<"!", "=">>)
         THEN FiltrarOuPular(convertido, column, "!=",
                             SplitSegundo(condition, <<"!", "=">>))
       ELSE FiltrarOuPular(convertido, column, "==", condition)

\* for column, condition in filters.items(): the dict as the sequence of its
\* items, in insertion order
RECURSIVE _apply_numeric_filters(_, _)
_apply_numeric_filters(d, filters) ==
  IF filters = <<>> THEN d
  ELSE _apply_numeric_filters(_filtro_numerico(d, filters[1][1], filters[1][2]),
                              Tail(filters))

\* One iteration of the loop of _apply_column_filters (lines 124-129).
_filtro_coluna(d, column, value, case_sensitive) ==
  IF ~TemColuna(d, column) THEN d
  ELSE
    LET j == PosicaoColuna(d, column) IN
      IF ~case_sensitive /\ value.t = "str"
      THEN [d EXCEPT !.linhas = SelectSeq(d.linhas, LAMBDA linha :
             Lower(AsTypeStr(linha[j], d.dtypes[j])) = Lower(value.s))]
      ELSE [d EXCEPT !.linhas = SelectSeq(d.linhas, LAMBDA linha :
             /\ linha[j].t = value.t
             /\ linha[j] = value)]

RECURSIVE _apply_column_filters(_, _, _)
_apply_column_filters(d, filters, case_sensitive) ==
  IF filters = <<>> THEN d
  ELSE _apply_column_filters(
         _filtro_coluna(d, filters[1][1], filters[1][2], case_sensitive),
         Tail(filters), case_sensitive)

\* lines 170-181: the rows where some column, as text, contains the query
_apply_text_search(d, query, case_sensitive) ==
  LET df_str(linha, j) == IF case_sensitive THEN AsTypeStr(linha[j], d.dtypes[j])
                          ELSE Lower(AsTypeStr(linha[j], d.dtypes[j]))
      q == IF case_sensitive THEN query ELSE Lower(query)
  IN [d EXCEPT !.linhas = SelectSeq(d.linhas, LAMBDA linha :
       \E j \in 1..Len(d.colunas) : Contains(df_str(linha, j), q))]

\* lines 183-203: one entry per filter asked for, in the order of the text
_format_filters(search_query, column_filters, numeric_filters) ==
  LET descricao ==
        (IF search_query # <<>>
         THEN <<[filtro |-> "Busca de texto", texto |-> search_query]>> ELSE <<>>)
        \o [i \in 1..Len(column_filters) |->
              [filtro |-> "Filtro coluna", coluna |-> column_filters[i][1],
               valor |-> column_filters[i][2]]]
        \o [i \in 1..Len(numeric_filters) |->
              [filtro |-> "Filtro numerico", coluna |-> numeric_filters[i][1],
               condicao |-> numeric_filters[i][2]]]
  IN IF descricao = <<>>
     THEN <<[filtro |-> "Nenhum filtro especifico (busca geral)"]>>
     ELSE descricao

\* The rows shown when to_string is given max_rows, line 103.
PreviewMaxRows == 20

\* The last n rows instead of the first n.
head_Ultimas(d, n) ==
  [d EXCEPT !.linhas = SubSeq(d.linhas, Len(d.linhas) - Min(n, Len(d.linhas)) + 1,
                              Len(d.linhas))]

\* df.head(n)
head(d, n) == [d EXCEPT !.linhas = SubSeq(d.linhas, 1, Min(n, Len(d.linhas)))]

\* The rows df.to_string(index=False, max_rows=...) prints: all of them, or
\* the first and the last max_rows // 2 around a row of dots.
ToStringLinhas(d, max_rows) ==
  IF Len(d.linhas) <= max_rows THEN d.linhas
  ELSE SubSeq(d.linhas, 1, max_rows \div 2)
       \o SubSeq(d.linhas, Len(d.linhas) - (max_rows \div 2) + 1, Len(d.linhas))

\* lines 80-116: the report of a search that left rows
Relatorio(d, c, linhas_originais) ==
  LET limited == Len(d.linhas) > c.max_results
      mostrado == IF limited THEN head(d, c.max_results) ELSE d
      numeric_cols == {j \in 1..Len(mostrado.colunas) :
                         is_numeric_dtype(mostrado.dtypes[j])}
  IN [tipo |-> "RESULTADOS DA BUSCA EM CSV",
      linhas_originais |-> linhas_originais,
      linhas_apos_filtros |-> Len(d.linhas),
      mostrando_primeiros |-> IF limited THEN <<c.max_results>> ELSE <<>>,
      filtros |-> _format_filters(c.search_query, c.column_filters, c.numeric_filters),
      preview |-> ToStringLinhas(mostrado, PreviewMaxRows),
      mais_linhas |-> IF Len(mostrado.linhas) > PreviewMaxRows
                      THEN <<Len(mostrado.linhas) - PreviewMaxRows>> ELSE <<>>,
      estatisticas |-> IF numeric_cols # {} /\ Len(mostrado.linhas) > 1
                       THEN {mostrado.colunas[j] : j \in numeric_cols} ELSE {}]

\* An empty result answered as the empty file is.
NenhumResultado_ComoErro(c, linhas_originais) ==
  [tipo |-> "ERRO: Arquivo CSV esta vazio"]

\* line 78: the response of a search that left no row
NenhumResultado(c, linhas_originais) ==
  [tipo |-> "NENHUM RESULTADO ENCONTRADO",
   filtros |-> _format_filters(c.search_query, c.column_filters, c.numeric_filters),
   total_linhas |-> linhas_originais]

\* pd.read_csv of a file that parses: a column whose fields are all numbers
\* is int64, any other column is object and holds the texts.
read_csv(arq) ==
  LET numerica(j) == \A i \in 1..Len(arq.linhas) : ParseFloat(arq.linhas[i][j]).ok IN
    DataFrame(arq.colunas,
              [j \in 1..Len(arq.colunas) |-> IF numerica(j) THEN "int64" ELSE "object"],
              [i \in 1..Len(arq.linhas) |->
                 [j \in 1..Len(arq.colunas) |->
                    IF numerica(j) THEN CelNum(ParseFloat(arq.linhas[i][j]).valor)
                    ELSE CelStr(arq.linhas[i][j])]])

\* The numeric filters run before the column filters.
Etapas_NumericosPrimeiro == <<"numericos", "colunas", "texto">>

\* The order of the three filters in _run, lines 63-73.
Etapas == <<"colunas", "numericos", "texto">>

\* Where _run is after the filter etapa: at the next filter, or at the
\* response.
EtapaSeguinte(etapa) ==
  LET k == CHOOSE i \in 1..Len(Etapas) : Etapas[i] = etapa IN
    IF k < Len(Etapas) THEN Etapas[k + 1] ELSE "relatorio"

(***************************************************************************)
(* The searches of the model.                                              *)
(***************************************************************************)
MaxLinhasCsv == 22

\* max_results: int = 50
MaxResultsPadrao == 50

\* The searches: every combination of these files and arguments.  The
\* lines of a file are four lines, repeated; the numeric conditions are
\* each operator, no operator and an unknown prefix before 30 on the
\* numeric column, and conditions on a column with text, on a column of
\* text only, on a column the file lacks, and two filters at once.
Consultas ==
  LET trinta == <<"3", "0">>
      ana == <<"a", "n", "a">>
      LinhasBase ==
        << <<<<"2", "5">>, <<"A", "n", "a">>, trinta>>,
           <<trinta,       <<"B", "o", "b">>, <<"x">>>>,
           <<<<"3", "5">>, ana,               trinta>>,
           <<trinta,       <<"E", "v", "a">>, <<"4", "0">>>> >>
      ArquivoComLinhas(n) ==
        ArquivoCsv("tabela", <<"age", "name", "code">>,
                   [i \in 1..n |-> LinhasBase[((i - 1) % Len(LinhasBase)) + 1]])
      ArquivosCsv ==
        {ArquivoCsv("ausente", <<>>, <<>>), ArquivoCsv("ilegivel", <<>>, <<>>)}
        \cup {ArquivoComLinhas(n) : n \in {0, 1, 2, 4, MaxLinhasCsv}}
      ColumnFilters ==
        { <<>>,
          << <<"name", CelStr(ana)>> >>,
          << <<"age", CelNum(30)>> >>,
          << <<"code", CelStr(trinta)>> >>,
          << <<"cidade", CelStr(<<"x">>)>> >> }
      Prefixos == {<<">">>, <<"<">>, <<">", "=">>, <<"<", "=">>, <<"=", "=">>,
                   <<"!", "=">>, <<>>, <<"~">>}
      NumericFilters ==
        { <<>> }
        \cup { << <<"age", prefixo \o trinta>> >> : prefixo \in Prefixos }
        \cup { << <<"code", <<">">> \o trinta>> >>,
               << <<"code", <<"~">> \o trinta>> >>,
               << <<"name", <<">">> \o trinta>> >>,
               << <<"cidade", <<">">> \o trinta>> >>,
               << <<"code", <<"~">> \o trinta>>, <<"age", <<">", "2", "5">>>> >> }
      SearchQueries == {<<>>, ana, <<"x">>, <<"n", "a", "n">>}
      MaxResults == {1, 2, PreviewMaxRows + 1, MaxResultsPadrao}
  IN { Consulta(arq, q, cf, nf, n, cs) :
         arq \in ArquivosCsv, q \in SearchQueries, cf \in ColumnFilters,
         nf \in NumericFilters, n \in MaxResults, cs \in BOOLEAN }

(***************************************************************************)
(* CSVSearchTool._run                                                      *)
(***************************************************************************)
\* lines 51-61: the call, up to original_rows = len(df)
ChamarBusca ==
  /\ pc_busca = "ocioso"
  /\ \E c \in Consultas :
       /\ consulta' = c
       /\ CASE c.arquivo.tipo = "ausente" ->
                 /\ resposta' = [tipo |-> "ERRO: Arquivo CSV nao encontrado"]
                 /\ pc_busca' = "retornou"
                 /\ UNCHANGED <<df, original_rows>>
            [] c.arquivo.tipo = "ilegivel" ->
                 /\ resposta' = [tipo |-> "ERRO durante busca no CSV"]
                 /\ pc_busca' = "retornou"
                 /\ UNCHANGED <<df, original_rows>>
            [] c.arquivo.tipo = "tabela" /\ c.arquivo.linhas = <<>> ->
                 /\ resposta' = [tipo |-> "ERRO: Arquivo CSV esta vazio"]
                 /\ pc_busca' = "retornou"
                 /\ df' = read_csv(c.arquivo)
                 /\ UNCHANGED original_rows
            [] OTHER ->
                 /\ df' = read_csv(c.arquivo)
                 /\ original_rows' = Len(c.arquivo.linhas)
                 /\ pc_busca' = Etapas[1]
                 /\ UNCHANGED resposta
  /\ UNCHANGED <<varsValidador, varsAuditor, varsWeb>>

\* lines 64-65
AplicarFiltrosColuna ==
  /\ pc_busca = "colunas"
  /\ df' = IF consulta.column_filters # <<>>
           THEN _apply_column_filters(df, consulta.column_filters, consulta.case_sensitive)
           ELSE df
  /\ pc_busca' = EtapaSeguinte("colunas")
  /\ UNCHANGED <<consulta, original_rows, resposta, varsValidador, varsAuditor, varsWeb>>

\* lines 68-69
AplicarFiltrosNumericos ==
  /\ pc_busca = "numericos"
  /\ df' = IF consulta.numeric_filters # <<>>
           THEN _apply_numeric_filters(df, consulta.numeric_filters)
           ELSE df
  /\ pc_busca' = EtapaSeguinte("numericos")
  /\ UNCHANGED <<consulta, original_rows, resposta, varsValidador, varsAuditor, varsWeb>>

\* lines 72-73
AplicarBuscaTexto ==
  /\ pc_busca = "texto"
  /\ df' = IF consulta.search_query # <<>>
           THEN _apply_text_search(df, consulta.search_query, consulta.case_sensitive)
           ELSE df
  /\ pc_busca' = EtapaSeguinte("texto")
  /\ UNCHANGED <<consulta, original_rows, resposta, varsValidador, varsAuditor, varsWeb>>

\* lines 75-116: the response, and df cut to max_results rows
MontarResposta ==
  /\ pc_busca = "relatorio"
  /\ resposta' = IF df.linhas = <<>> THEN NenhumResultado(consulta, original_rows)
                 ELSE Relatorio(df, consulta, original_rows)
  /\ df' = IF Len(df.linhas) > consulta.max_results
           THEN head(df, consulta.max_results) ELSE df
  /\ pc_busca' = "retornou"
  /\ UNCHANGED <<consulta, original_rows, varsValidador, varsAuditor, varsWeb>>

\* The caller has the text; the frame is gone.
RetornarBusca ==
  /\ pc_busca = "retornou"
  /\ pc_busca' = "ocioso"
  /\ consulta' = Consulta(ArquivoCsv("ausente", <<>>, <<>>), <<>>, <<>>, <<>>, 0, FALSE)
  /\ df' = DataFrame(<<>>, <<>>, <<>>)
  /\ original_rows' = 0
  /\ resposta' = [tipo |-> "nenhuma"]
  /\ UNCHANGED <<varsValidador, varsAuditor, varsWeb>>

InitBusca ==
  /\ SemWeb
  /\ config = config_padrao
  /\ ValidadorOcioso
  /\ BuscaOciosa
  /\ config_log = DictVazio
  /\ loggers = LoggersIniciais("WARNING")
  /\ SemAuditor

NextBusca ==
  \/ ChamarBusca
  \/ AplicarFiltrosColuna
  \/ AplicarFiltrosNumericos
  \/ AplicarBuscaTexto
  \/ MontarResposta
  \/ RetornarBusca

SpecBusca == InitBusca /\ [][NextBusca]_vars

(***************************************************************************)
(* Vocabulary of the properties of the search.                             *)
(***************************************************************************)
\* The comparison operator a condition is written with: the longest of the
\* six operators it starts with.
OperadorDeclarado(condition) ==
  IF StartsWith(condition, <<">", "=">>) THEN ">="
  ELSE IF StartsWith(condition, <<"<", "=">>) THEN "<="
  ELSE IF StartsWith(condition, <<"=", "=">>) THEN "=="
  ELSE IF StartsWith(condition, <<"!", "=">>) THEN "!="
  ELSE IF StartsWith(condition, <<">">>) THEN ">"
  ELSE IF StartsWith(condition, <<"<">>) THEN "<"
  ELSE "nenhum"

\* The text after the operator.
LimiteDeclarado(condition) ==
  SubSeq(condition,
         (IF OperadorDeclarado(condition) \in {">", "<"} THEN 2 ELSE 3),
         Len(condition))

\* The one numeric filter of the running search is on a numeric column of df
\* and is written with one of the six operators and a number.
FiltroSobreColunaNumerica ==
  /\ Len(consulta.numeric_filters) = 1
  /\ TemColuna(df, consulta.numeric_filters[1][1])
  /\ is_numeric_dtype(df.dtypes[PosicaoColuna(df, consulta.numeric_filters[1][1])])
  /\ OperadorDeclarado(consulta.numeric_filters[1][2]) # "nenhum"
  /\ ParseFloat(LimiteDeclarado(consulta.numeric_filters[1][2])).ok

\* The rows of d whose value in the column satisfies (value op limite).
LinhasQueSatisfazem(d, column, op, limite) ==
  SelectSeq(d.linhas, LAMBDA linha : Compara(linha[PosicaoColuna(d, column)], op, limite))

\* Some cell of the column in d is a text that is not a number.
ColunaNaoNumerica(d, column) ==
  \E i \in 1..Len(d.linhas) :
    /\ d.linhas[i][PosicaoColuna(d, column)].t = "str"
    /\ ~ParseFloat(d.linhas[i][PosicaoColuna(d, column)].s).ok

\* The condition is neither a number nor an operator and what follows it.
PrefixoDesconhecido(condition) ==
  /\ OperadorDeclarado(condition) = "nenhum"
  /\ ~ParseFloat(condition).ok

\* A filter the numeric stage cannot apply to d.
Inaplicavel(d, filtro) ==
  /\ TemColuna(d, filtro[1])
  /\ \/ ColunaNaoNumerica(d, filtro[1])
     \/ PrefixoDesconhecido(filtro[2])

(***************************************************************************)
(* C11: each of the six comparison operators >, <, >=, <=, ==, != of a     *)
(* numeric filter on a numeric column leaves exactly the rows whose value  *)
(* satisfies (value op v); ">=30" keeps the rows equal to 30 too.          *)
(* The numeric stage does not do this: for ">=30" and "<=30" it leaves     *)
(* every row.                                                              *)
(***************************************************************************)
C11_SeisOperadores ==
  [][(pc_busca = "numericos" /\ FiltroSobreColunaNumerica)
       => df'.linhas =
            LinhasQueSatisfazem(df, consulta.numeric_filters[1][1],
              OperadorDeclarado(consulta.numeric_filters[1][2]),
              ParseFloat(LimiteDeclarado(consulta.numeric_filters[1][2])).valor)]_vars

(***************************************************************************)
(* C12: a numeric filter whose column cannot be parsed as numeric, or      *)
(* whose condition has an unrecognized operator prefix, is skipped: after  *)
(* the numeric stage df is what the remaining numeric filters make of the  *)
(* df before it, rows and values of every column.                          *)
(* The numeric stage does not do this: it replaces the column by its       *)
(* numeric coercion before it looks at the condition.                      *)
(***************************************************************************)
C12_FiltroInaplicavelEPulado ==
  [][(pc_busca = "numericos" /\ consulta.numeric_filters # <<>>)
       => df' = _apply_numeric_filters(df,
                  SelectSeq(consulta.numeric_filters,
                            LAMBDA filtro : ~Inaplicavel(df, filtro)))]_vars

\* The three filters as _run guards them, on a frame d of the running search.
ComFiltrosColuna(d) ==
  IF consulta.column_filters # <<>>
  THEN _apply_column_filters(d, consulta.column_filters, consulta.case_sensitive)
  ELSE d

ComFiltrosNumericos(d) ==
  IF consulta.numeric_filters # <<>>
  THEN _apply_numeric_filters(d, consulta.numeric_filters)
  ELSE d

ComBuscaTexto(d) ==
  IF consulta.search_query # <<>>
  THEN _apply_text_search(d, consulta.search_query, consulta.case_sensitive)
  ELSE d

(***************************************************************************)
(* C13: the filters are applied in the order column exact-match, numeric,  *)
(* free-text, each on the rows and column values the previous one left:    *)
(* when the three have run, df is the text search of the numeric filters   *)
(* of the column filters of the file's table.                              *)
(***************************************************************************)
C13_OrdemDosFiltros ==
  pc_busca = "relatorio"
    => df = ComBuscaTexto(ComFiltrosNumericos(ComFiltrosColuna(read_csv(consulta.arquivo))))

\* The three kinds of filter were asked for, rows are left, and the numeric
\* filters before the column filters would have left other rows.
C13_Witness ==
  /\ pc_busca = "relatorio"
  /\ consulta.column_filters # <<>>
  /\ consulta.numeric_filters # <<>>
  /\ consulta.search_query # <<>>
  /\ df.linhas # <<>>
  /\ Len(df.linhas) < original_rows
  /\ df # ComBuscaTexto(ComFiltrosColuna(ComFiltrosNumericos(read_csv(consulta.arquivo))))

\* The rows of the file that pass the filters of the running search.
Correspondentes ==
  ComBuscaTexto(ComFiltrosNumericos(ComFiltrosColuna(read_csv(consulta.arquivo)))).linhas

\* The search has returned a report of results.
RetornouRelatorio ==
  /\ pc_busca = "retornou"
  /\ resposta.tipo = "RESULTADOS DA BUSCA EM CSV"

Primeiras(linhas, n) == SubSeq(linhas, 1, n)

Ultimas(linhas, n) == SubSeq(linhas, Len(linhas) - n + 1, Len(linhas))

(***************************************************************************)
(* C14 as stated: with more matching rows than max_results the report      *)
(* holds exactly the first max_results matching rows and the number of     *)
(* omitted rows (matches - max_results); otherwise it holds every matching *)
(* row and reports no truncation.                                          *)
(***************************************************************************)
C14_Original ==
  RetornouRelatorio =>
    IF Len(Correspondentes) > consulta.max_results
    THEN /\ resposta.preview = Primeiras(Correspondentes, consulta.max_results)
         /\ resposta.mais_linhas = <<Len(Correspondentes) - consulta.max_results>>
    ELSE /\ resposta.preview = Correspondentes
         /\ resposta.mostrando_primeiros = <<>>
         /\ resposta.mais_linhas = <<>>

(***************************************************************************)
(* C14, amended: the report gives the number of matching rows.  With more  *)
(* matching rows than max_results, df is cut to the first max_results of   *)
(* them and the report says that the first max_results are shown; no       *)
(* number of omitted rows is given.  Otherwise df keeps every matching row *)
(* and nothing is said of a limit.  Of the rows kept, the report prints    *)
(* all when they are at most 20, and otherwise the first 10 and the last   *)
(* 10 with the number of rows kept beyond 20.                              *)
(***************************************************************************)
C14_LimiteDeResultados ==
  RetornouRelatorio =>
    LET limitado == Len(Correspondentes) > consulta.max_results
        mantidas == IF limitado THEN Primeiras(Correspondentes, consulta.max_results)
                    ELSE Correspondentes
    IN /\ resposta.linhas_apos_filtros = Len(Correspondentes)
       /\ resposta.mostrando_primeiros
            = IF limitado THEN <<consulta.max_results>> ELSE <<>>
       /\ df.linhas = mantidas
       /\ IF Len(mantidas) <= PreviewMaxRows
          THEN /\ resposta.preview = mantidas
               /\ resposta.mais_linhas = <<>>
          ELSE /\ resposta.preview = Primeiras(mantidas, PreviewMaxRows \div 2)
                                     \o Ultimas(mantidas, PreviewMaxRows \div 2)
               /\ resposta.mais_linhas = <<Len(mantidas) - PreviewMaxRows>>

\* More rows match than max_results, and max_results is more than the report
\* prints.
C14_Witness ==
  /\ RetornouRelatorio
  /\ Len(Correspondentes) > consulta.max_results
  /\ consulta.max_results > PreviewMaxRows
  /\ resposta.mais_linhas # <<>>

(***************************************************************************)
(* C15: when the file has at least one row and the filters leave none, the *)
(* response is the "no results" response, which is not an error and is not *)
(* the response for a missing or an empty file, and it holds the text      *)
(* query, every column filter and every numeric filter asked for, and the  *)
(* number of rows of the file.                                             *)
(***************************************************************************)
C15_NenhumResultado ==
  ( /\ pc_busca = "retornou"
    /\ consulta.arquivo.tipo = "tabela"
    /\ Len(consulta.arquivo.linhas) >= 1
    /\ Correspondentes = <<>> )
  => LET descritos == {resposta.filtros[k] : k \in 1..Len(resposta.filtros)} IN
       /\ resposta.tipo = "NENHUM RESULTADO ENCONTRADO"
       /\ resposta.tipo \notin {"ERRO: Arquivo CSV nao encontrado",
                                "ERRO: Arquivo CSV esta vazio",
                                "ERRO durante busca no CSV"}
       /\ resposta.total_linhas = Len(consulta.arquivo.linhas)
       /\ consulta.search_query # <<>> =>
            [filtro |-> "Busca de texto", texto |-> consulta.search_query] \in descritos
       /\ \A i \in 1..Len(consulta.column_filters) :
            [filtro |-> "Filtro coluna", coluna |-> consulta.column_filters[i][1],
             valor |-> consulta.column_filters[i][2]] \in descritos
       /\ \A i \in 1..Len(consulta.numeric_filters) :
            [filtro |-> "Filtro numerico", coluna |-> consulta.numeric_filters[i][1],
             condicao |-> consulta.numeric_filters[i][2]] \in descritos

\* A file with rows, the three kinds of filter, one numeric filter skipped,
\* and no row left.
C15_Witness ==
  /\ pc_busca = "retornou"
  /\ consulta.arquivo.tipo = "tabela"
  /\ Len(consulta.arquivo.linhas) >= 1
  /\ consulta.search_query # <<>>
  /\ consulta.column_filters # <<>>
  /\ Len(consulta.numeric_filters) = 2
  /\ resposta.tipo = "NENHUM RESULTADO ENCONTRADO"
  /\ Len(resposta.filtros) = 4

(***************************************************************************)
(* tools/academic_logger.py: AcademicAuditor.                              *)
(*                                                                         *)
(* A dict is a function on its keys; an optional argument is <<>> for      *)
(* None and <<v>> for the value v.  The timestamp of an event is not part  *)
(* of the model.                                                           *)
(***************************************************************************)
MaxAuditores == 2
MaxEventos == 2

\* dict.get(chave, padrao)
Get(dicionario, chave, padrao) ==
  IF chave \in DOMAIN dicionario THEN dicionario[chave] ELSE padrao

\* valor or {}
OuDictVazio(opcional) == IF opcional = <<>> THEN DictVazio ELSE opcional[1]

\* The numeric value of a level of the logging module.
NivelNumero(nivel) ==
  CASE nivel = "NOTSET" -> 0
    [] nivel = "DEBUG" -> 10
    [] nivel = "INFO" -> 20
    [] nivel = "WARNING" -> 30
    [] nivel = "ERROR" -> 40
    [] nivel = "CRITICAL" -> 50

\* Logger.getEffectiveLevel: the level of the logger, or of the root logger
\* when its own is NOTSET.
EffectiveLevel(lg, nome) ==
  IF lg[nome].level # "NOTSET" THEN lg[nome].level ELSE lg.root.level

\* The handlers _setup_logging creates, with the levels it gives them when
\* the configuration names none (lines 47-56, 80-81, 103).
console_handler ==
  [level |-> "INFO", formatter |-> "logging.Formatter", destino |-> "stderr"]
file_handler ==
  [level |-> "DEBUG", formatter |-> "logging.Formatter",
   destino |-> "logs/sapiens_academico.log"]
auditoria_handler ==
  [level |-> "INFO", formatter |-> "JsonFormatter",
   destino |-> "logs/auditoria_academica.jsonl"]

\* JsonFormatter.format (lines 85-101).  getattr(record, 'sessao_id',
\* self.sessao_id) evaluates its default before the call, and self is the
\* formatter, whose attributes are those logging.Formatter sets: without
\* that attribute format raises AttributeError.
JsonFormatter_format(record) ==
  IF {"sessao_id", "usuario_id"} \subseteq {"_style", "_fmt", "datefmt"}
  THEN [excecao |-> "nenhuma",
        linha |-> [sessao_id |-> record.extra.sessao_id,
                   usuario_id |-> record.extra.usuario_id,
                   nivel |-> record.nivel,
                   evento |-> record.msg,
                   componente |-> record.nome,
                   dados_adicionais |-> record.extra.dados_adicionais,
                   ip_origem |-> "localhost",
                   user_agent |-> "SAPIENS-System"]]
  ELSE [excecao |-> "AttributeError", linha |-> <<>>]

\* Logger.log(nivel, ...): the lines the handlers of the logger write to
\* the file destino.  The logger drops a record below its effective level,
\* a handler one below its own level; Handler.emit catches an exception of
\* format (handleError) and writes nothing.  The two plain formatters
\* print the level, the logger and the message.
LinhasEscritas(lg, record, destino) ==
  IF NivelNumero(record.nivel) < NivelNumero(EffectiveLevel(lg, record.nome))
  THEN <<>>
  ELSE LET formatado(h) == IF h.formatter = "JsonFormatter"
                           THEN JsonFormatter_format(record)
                           ELSE [excecao |-> "nenhuma",
                                 linha |-> [nivel |-> record.nivel,
                                            componente |-> record.nome,
                                            msg |-> record.msg]]
           escreve(h) == /\ h.destino = destino
                         /\ NivelNumero(record.nivel) >= NivelNumero(h.level)
                         /\ formatado(h).excecao = "nenhuma"
           escritores == SelectSeq(lg[record.nome].handlers, escreve)
       IN [k \in 1..Len(escritores) |-> formatado(escritores[k]).linha]

\* Without the return of lines 43-44: the handlers are added every time.
_setup_logging_SemGuarda(lg) ==
  [loggers |->
     [lg EXCEPT
        !.sapiens_academico.level = "DEBUG",
        !.sapiens_academico.handlers = @ \o <<file_handler, console_handler>>,
        !.sapiens_auditoria.handlers = Append(@, auditoria_handler),
        !.sapiens_auditoria.propagate = FALSE],
   atributos |-> {"logger", "auditoria_logger"}]

\* _setup_logging (lines 33-105) on the loggers lg: the loggers after it and
\* the attributes it has set on self.
_setup_logging(lg) ==
  LET nivelado == [lg EXCEPT !.sapiens_academico.level = "DEBUG"] IN
    IF nivelado.sapiens_academico.handlers # <<>>
    THEN [loggers |-> nivelado, atributos |-> {"logger"}]
    ELSE [loggers |->
            [nivelado EXCEPT
               !.sapiens_academico.handlers = @ \o <<file_handler, console_handler>>,
               !.sapiens_auditoria.handlers = Append(@, auditoria_handler),
               !.sapiens_auditoria.propagate = FALSE],
          atributos |-> {"logger", "auditoria_logger"}]

\* The severity is the nivel argument.
Criticidade_PeloNivel(evento, nivel, cfg) == nivel

\* lines 139-160: the severity method auditar_evento calls on the audit
\* logger; the nivel argument is not read.
Criticidade(evento, nivel, cfg) ==
  LET eventos_criticos == Get(Get(cfg, "auditoria", DictVazio),
                              "eventos_criticidade_alta", {})
      eventos_medios == Get(Get(cfg, "auditoria", DictVazio),
                            "eventos_criticidade_media", {})
  IN IF evento \in eventos_criticos THEN "CRITICAL"
     ELSE IF evento \in eventos_medios THEN "WARNING"
     ELSE "INFO"

\* lines 119-134: evento_data
EventoData(auditor, evento, dados_entrada, dados_saida, tempo_execucao_ms, kwargs) ==
  Atualizar(
    Atualizar([sessao_id |-> auditor.sessao_id,
               usuario_id |-> auditor.usuario_id,
               evento_tipo |-> evento,
               dados_entrada |-> OuDictVazio(dados_entrada),
               dados_saida |-> OuDictVazio(dados_saida),
               tempo_execucao_ms |-> tempo_execucao_ms],
              kwargs),
    [ip_origem |-> Get(kwargs, "ip_origem", "localhost"),
     user_agent |-> Get(kwargs, "user_agent", "SAPIENS-System")])

\* The new event goes to the front of the list.
AnexarEvento_NoInicio(eventos, evento_data) == <<evento_data>> \o eventos

\* line 137: self._eventos_auditoria.append(evento_data)
AnexarEvento(eventos, evento_data) == Append(eventos, evento_data)

\* lines 214-220
_agrupar_eventos_por_tipo(eventos) ==
  LET tipos == {Get(eventos[k], "evento_tipo", "desconhecido") : k \in 1..Len(eventos)} IN
    [tipo \in tipos |->
       Cardinality({k \in 1..Len(eventos) :
                      Get(eventos[k], "evento_tipo", "desconhecido") = tipo})]

\* lines 204-212, without tempo_sessao_minutos
get_estatisticas_auditoria(auditor) ==
  [sessao_id |-> auditor.sessao_id,
   total_eventos |-> Len(auditor._eventos_auditoria),
   eventos_por_tipo |-> _agrupar_eventos_por_tipo(auditor._eventos_auditoria),
   usuario_id |-> auditor.usuario_id]

\* The processes of the model, each what _load_config returns and the
\* level of the root logger: no configuration file ({}) under the root
\* level the logging module starts with, and a file whose lists of event
\* names overlap under a root logger the application set to INFO.
Ambientes ==
  { [config |-> DictVazio, raiz |-> "WARNING"],
    [config |->
       [auditoria |->
          [eventos_criticidade_alta |-> {"erro_sistema", "validacao_dados"},
           eventos_criticidade_media |-> {"validacao_dados", "inicio_analise"}]],
     raiz |-> "INFO"] }

\* The number of events in the lists of all the objects.
RECURSIVE TotalEventos(_)
TotalEventos(objetos) ==
  IF objetos = <<>> THEN 0
  ELSE Len(objetos[1]._eventos_auditoria) + TotalEventos(Tail(objetos))

\* The bound of the model: at most MaxEventos calls that record an event or
\* export the list, an export counted by the line it wrote to the
\* application log.
PodeChamar ==
  LET exportacoes ==
        SelectSeq(arquivo_log, LAMBDA linha :
          linha.msg.texto \in {"Auditoria exportada para", "Erro ao exportar auditoria"})
  IN TotalEventos(auditores) + Len(exportacoes) < MaxEventos

(***************************************************************************)
(* AcademicAuditor                                                         *)
(***************************************************************************)
\* AcademicAuditor() (lines 15-22): the module's auditor_global when it is
\* the first, any later construction after it.  The session id is a fresh
\* uuid4, here the number of the object.
ConstruirAuditor ==
  /\ Len(auditores) < MaxAuditores
  /\ LET configurado == _setup_logging(loggers) IN
       /\ loggers' = configurado.loggers
       /\ auditores' = Append(auditores,
                              [sessao_id |-> Len(auditores) + 1,
                               usuario_id |-> "sistema",
                               atributos |-> configurado.atributos,
                               _eventos_auditoria |-> <<>>])
  /\ chamada' = Chamada("__init__", Len(auditores) + 1, "", "nenhuma", <<>>)
  /\ UNCHANGED <<config_log, registros, arquivo_audit, arquivo_log,
                 varsValidador, varsBusca, varsWeb>>

\* auditar_evento (lines 107-163) on the object i.  The event is appended
\* first; self.auditoria_logger raises AttributeError on an object whose
\* _setup_logging returned at line 44, and the exception leaves the with
\* block and the method.
Registrar(i, metodo, evento, nivel, dados_entrada, dados_saida, tempo_execucao_ms, kwargs) ==
  LET auditor == auditores[i]
      evento_data == EventoData(auditor, evento, dados_entrada, dados_saida,
                                tempo_execucao_ms, kwargs)
      severidade == Criticidade(evento, nivel, config_log)
      registro == [nome |-> "sapiens_auditoria",
                   nivel |-> severidade,
                   msg |-> [texto |-> CASE severidade = "CRITICAL" -> "Evento critico"
                                        [] severidade = "WARNING" -> "Evento importante"
                                        [] OTHER -> "Evento",
                            evento |-> evento],
                   extra |-> [dados_adicionais |-> evento_data,
                              sessao_id |-> auditor.sessao_id,
                              usuario_id |-> auditor.usuario_id]]
      geral == [nome |-> "sapiens_academico", nivel |-> "INFO",
                msg |-> [texto |-> "Auditoria", evento |-> evento,
                         dados_entrada |-> dados_entrada]]
  IN /\ auditores' = [auditores EXCEPT
                        ![i]._eventos_auditoria = AnexarEvento(@, evento_data)]
     /\ IF "auditoria_logger" \in auditor.atributos
        THEN /\ registros' = Append(registros, registro)
             /\ arquivo_audit' = arquivo_audit
                  \o LinhasEscritas(loggers, registro, auditoria_handler.destino)
             /\ arquivo_log' = arquivo_log
                  \o LinhasEscritas(loggers, geral, file_handler.destino)
             /\ chamada' = Chamada(metodo, i, nivel, "nenhuma", <<>>)
        ELSE /\ chamada' = Chamada(metodo, i, nivel, "AttributeError", <<>>)
             /\ UNCHANGED <<registros, arquivo_audit, arquivo_log>>
     /\ UNCHANGED <<config_log, loggers, varsValidador, varsBusca>>

\* A direct call, as web/app.py line 400 makes: without the optional
\* arguments, or with all of them.
AuditarEvento ==
  /\ PodeChamar
  /\ UNCHANGED varsWeb
  /\ \E i \in 1..Len(auditores), nivel \in {"INFO", "ERROR"}, completo \in BOOLEAN :
       IF completo
       THEN Registrar(i, "auditar_evento", "inicializacao_interface_web", nivel,
                      <<[versao |-> "2.0"]>>, <<[ok |-> TRUE]>>, <<12>>,
                      [ip_origem |-> "10.0.0.1"])
       ELSE Registrar(i, "auditar_evento", "inicializacao_interface_web", nivel,
                      <<>>, <<>>, <<>>, DictVazio)

\* lines 165-174
IniciarAnalise ==
  /\ PodeChamar
  /\ UNCHANGED varsWeb
  /\ \E i \in 1..Len(auditores) :
       Registrar(i, "iniciar_analise", "inicio_analise", "INFO",
                 <<[topico_pesquisa |-> "topico",
                    dados_fornecidos |-> OuDictVazio(<<>>)]>>,
                 <<>>, <<>>, DictVazio)

\* lines 176-182
ValidarDados ==
  /\ PodeChamar
  /\ UNCHANGED varsWeb
  /\ \E i \in 1..Len(auditores), dados_validos \in BOOLEAN :
       Registrar(i, "validar_dados", "validacao_dados",
                 IF ~dados_validos THEN "WARNING" ELSE "INFO",
                 <<[dados_validos |-> dados_validos, detalhes |-> ""]>>,
                 <<>>, <<>>, DictVazio)

\* lines 184-194
RegistrarErro ==
  /\ PodeChamar
  /\ UNCHANGED varsWeb
  /\ \E i \in 1..Len(auditores) :
       Registrar(i, "registrar_erro", "erro_sistema", "ERROR",
                 <<[erro_tipo |-> "ValueError", erro_mensagem |-> "mensagem",
                    contexto |-> "processar_analise"]>>,
                 <<>>, <<>>, DictVazio)

\* lines 196-202
FinalizarAnalise ==
  /\ PodeChamar
  /\ UNCHANGED varsWeb
  /\ \E i \in 1..Len(auditores), sucesso \in BOOLEAN :
       Registrar(i, "finalizar_analise", "resultado_analise",
                 IF sucesso THEN "INFO" ELSE "ERROR",
                 <<>>, <<[sucesso |-> sucesso, resultados_resumo |-> <<>>]>>,
                 <<>>, DictVazio)

\* lines 204-212
GetEstatisticasAuditoria ==
  /\ \E i \in 1..Len(auditores) :
       chamada' = Chamada("get_estatisticas_auditoria", i, "", "nenhuma",
                          <<get_estatisticas_auditoria(auditores[i])>>)
  /\ UNCHANGED <<config_log, loggers, auditores, registros, arquivo_audit,
                 arquivo_log, varsValidador, varsBusca, varsWeb>>

\* exportar_auditoria_json (lines 238-262): the file is written and its
\* path returned, or open or json.dump raises and None is returned; one
\* line goes to the application log.
ExportarAuditoriaJson ==
  /\ PodeChamar
  /\ \E i \in 1..Len(auditores), escrito \in BOOLEAN :
       LET conteudo == [metadata |-> [sistema |-> "SAPIENS", versao |-> "2.0",
                                      sessao_id |-> auditores[i].sessao_id],
                        estatisticas |-> get_estatisticas_auditoria(auditores[i]),
                        eventos |-> auditores[i]._eventos_auditoria]
           linha == [nome |-> "sapiens_academico",
                     nivel |-> IF escrito THEN "INFO" ELSE "ERROR",
                     msg |-> [texto |-> IF escrito THEN "Auditoria exportada para"
                                        ELSE "Erro ao exportar auditoria"]]
       IN /\ arquivo_log' = arquivo_log
               \o LinhasEscritas(loggers, linha, file_handler.destino)
          /\ chamada' = Chamada("exportar_auditoria_json", i, "", "nenhuma",
                                IF escrito THEN <<conteudo>> ELSE <<>>)
  /\ UNCHANGED <<config_log, loggers, auditores, registros, arquivo_audit,
                 varsValidador, varsBusca, varsWeb>>

InitAuditor ==
  /\ SemWeb
  /\ config = config_padrao
  /\ ValidadorOcioso
  /\ BuscaOciosa
  /\ \E ambiente \in Ambientes :
       /\ config_log = ambiente.config
       /\ loggers = LoggersIniciais(ambiente.raiz)
  /\ SemAuditor

NextAuditor ==
  \/ ConstruirAuditor
  \/ AuditarEvento
  \/ IniciarAnalise
  \/ ValidarDados
  \/ RegistrarErro
  \/ FinalizarAnalise
  \/ GetEstatisticasAuditoria
  \/ ExportarAuditoriaJson

SpecAuditor == InitAuditor /\ [][NextAuditor]_vars

(***************************************************************************)
(* Vocabulary of the properties of the auditor.                            *)
(***************************************************************************)
MetodosDeRegistro ==
  {"auditar_evento", "iniciar_analise", "validar_dados", "registrar_erro",
   "finalizar_analise"}

\* The event type each recording method of the model records.
TipoDoMetodo(metodo) ==
  CASE metodo = "auditar_evento" -> "inicializacao_interface_web"
    [] metodo = "iniciar_analise" -> "inicio_analise"
    [] metodo = "validar_dados" -> "validacao_dados"
    [] metodo = "registrar_erro" -> "erro_sistema"
    [] metodo = "finalizar_analise" -> "resultado_analise"

\* The two configured lists of event names.
ListaAlta ==
  IF "auditoria" \in DOMAIN config_log
     /\ "eventos_criticidade_alta" \in DOMAIN config_log.auditoria
  THEN config_log.auditoria.eventos_criticidade_alta ELSE {}

ListaMedia ==
  IF "auditoria" \in DOMAIN config_log
     /\ "eventos_criticidade_media" \in DOMAIN config_log.auditoria
  THEN config_log.auditoria.eventos_criticidade_media ELSE {}

\* seq is the first Len(seq) elements of outra.
Prefixo(seq, outra) ==
  /\ Len(seq) <= Len(outra)
  /\ SubSeq(outra, 1, Len(seq)) = seq

\* The sum of the values of a dict of numbers.
RECURSIVE SomaDosValores(_)
SomaDosValores(contagens) ==
  IF DOMAIN contagens = {} THEN 0
  ELSE LET k == CHOOSE k \in DOMAIN contagens : TRUE IN
         contagens[k] + SomaDosValores([j \in DOMAIN contagens \ {k} |-> contagens[j]])

(***************************************************************************)
(* C16: the severity of every record auditar_evento gives the audit logger *)
(* depends only on the event type and the two configured lists: CRITICAL   *)
(* when the event is in the high-criticality list, WARNING when it is in   *)
(* the medium-criticality list and not in the high one, INFO otherwise,    *)
(* whatever nivel the caller passed.                                       *)
(***************************************************************************)
C16_SeveridadePelasListas ==
  \A k \in 1..Len(registros) :
    registros[k].nivel =
      IF registros[k].msg.evento \in ListaAlta THEN "CRITICAL"
      ELSE IF registros[k].msg.evento \in ListaMedia THEN "WARNING"
      ELSE "INFO"

\* An event of the medium list only was recorded as WARNING, and then an
\* event of both lists as CRITICAL by a call that passed nivel INFO.
C16_Witness ==
  /\ Len(registros) = 2
  /\ registros[1].nivel = "WARNING"
  /\ registros[2].nivel = "CRITICAL"
  /\ registros[2].msg.evento \in ListaAlta \cap ListaMedia
  /\ chamada.metodo = "validar_dados"
  /\ chamada.nivel = "INFO"

C18_UmaLinhaPorEvento == Len(arquivo_audit) = TotalEventos(auditores)

(***************************************************************************)
(* C19: recording an event never raises, on any AcademicAuditor, one       *)
(* constructed after another exists included, with the optional arguments  *)
(* missing.                                                                *)
(* The code does not do this: an auditor constructed after the first has   *)
(* no audit logger, and its recording calls raise AttributeError.          *)
(***************************************************************************)
C19_RegistrarNuncaLanca ==
  chamada.metodo \in MetodosDeRegistro => chamada.excecao = "nenhuma"

(***************************************************************************)
(* C20: the setup is idempotent.  Once an AcademicAuditor exists, no later *)
(* construction changes the handlers of the application logger or of the   *)
(* audit logger, and no sink holds more lines of recorded events than      *)
(* events were recorded.                                                   *)
(***************************************************************************)
C20_SetupIdempotente ==
  [][/\ Len(auditores) >= 1 =>
          /\ loggers'.sapiens_academico.handlers = loggers.sapiens_academico.handlers
          /\ loggers'.sapiens_auditoria.handlers = loggers.sapiens_auditoria.handlers
     /\ Len(arquivo_audit') <= TotalEventos(auditores')
     /\ Len(SelectSeq(arquivo_log', LAMBDA linha : linha.msg.texto = "Auditoria"))
          <= TotalEventos(auditores')]_vars

\* Two auditors exist, the handlers are the three of the first
\* construction, and an event recorded after the second construction is in
\* the application log once.
C20_Witness ==
  /\ Len(auditores) = 2
  /\ chamada.metodo = "registrar_erro"
  /\ chamada.auditor = 1
  /\ Len(loggers.sapiens_academico.handlers) = 2
  /\ Len(loggers.sapiens_auditoria.handlers) = 1
  /\ Len(arquivo_log) = 1
  /\ TotalEventos(auditores) = 1

(***************************************************************************)
(* The web shell: web/app.py (class SapiensWebInterface) and its           *)
(* serverless variant api/index.py.  A request handler runs on the thread  *)
(* of its request and analise_worker on a thread of its own; a step of the *)
(* model is what one thread does between two accesses to what the threads  *)
(* share: analises_ativas, the upload folder and the auditor.  An analysis *)
(* id is a fresh uuid4, here the number of the request that created it.    *)
(* The external agent pipeline (crew.kickoff) returns or raises.  The      *)
(* links of the form (links_sites) are left empty.                         *)
(***************************************************************************)
MaxPedidos == 2

\* _allowed_file (web/app.py lines 108-111, api/index.py lines 49-52)
_allowed_file(filename) ==
  /\ RFind(filename, ".") # 0
  /\ <<".">> \o Lower(SubSeq(filename, RFind(filename, ".") + 1, Len(filename)))
       \in {ExtCsv, ExtXlsx, ExtXls, ExtPdf, ExtDocx, ExtTxt}

\* The path a handler saves an upload at (web/app.py lines 178-183 and
\* 245-248): secure_filename(arquivo.filename) after the second the clock
\* gives, inside UPLOAD_FOLDER.  werkzeug's secure_filename, on ASCII names:
\* each path separator becomes a blank, the name is split at blanks and
\* joined with "_", and leading and trailing dots and underscores go.
file_path(nome, agora) ==
  LET RECURSIVE SemSeparador(_), Juntar(_), Strip(_, _)
      SemSeparador(t) ==
        IF t = <<>> THEN <<>>
        ELSE <<IF t[1] = "/" THEN " " ELSE t[1]>> \o SemSeparador(Tail(t))
      Strip(t, chars) ==
        IF t # <<>> /\ t[1] \in chars THEN Strip(Tail(t), chars)
        ELSE IF t # <<>> /\ t[Len(t)] \in chars
        THEN Strip(SubSeq(t, 1, Len(t) - 1), chars)
        ELSE t
      Juntar(t) ==
        IF t = <<>> THEN <<>>
        ELSE IF t[1] = " "
        THEN IF t[2] = " " THEN Juntar(Tail(t)) ELSE <<"_">> \o Juntar(Tail(t))
        ELSE <<t[1]>> \o Juntar(Tail(t))
      secure_filename == Strip(Juntar(Strip(SemSeparador(nome), {" "})), {".", "_"})
      unique_filename == StrInt(agora) \o <<"_">> \o secure_filename
  IN <<"u", "p", "l", "o", "a", "d", "s", "/">> \o unique_filename

\* self.security_validator.validar_arquivo(file_path) as the handlers call
\* it (web/app.py lines 44, 189, 252): the steps of a validator with the
\* default configuration, one after the other, on the file the path names
\* in the upload folder at the time of the call.
validar_arquivo(caminho) ==
  LET arq == IF caminho \in DOMAIN uploads
             THEN Arquivo("regular", caminho, uploads[caminho].tamanho_bytes,
                          uploads[caminho].mime, SemPii, uploads[caminho].tabela)
             ELSE Arquivo("ausente", caminho, 0, MimeCsv, SemPii, TabelaIlegivel)
      RECURSIVE Executar(_, _)
      Executar(passo, r) ==
        IF passo = "retornou" THEN r
        ELSE Executar(Passo(passo, r, arq, config_padrao).pc,
                      Passo(passo, r, arq, config_padrao).r)
  IN Executar("existe", ResultadoInicial(arq))

\* An upload handler that answers a rejected file without removing it.
_handle_upload_SemRemover ==
  \/ /\ servidor # "nenhum"
     /\ Len(pedidos) < MaxPedidos
     /\ \E enviado \in
             {<<>>} \cup
             { <<[filename |-> n, mime |-> m]>> :
                 n \in {<<>>, <<"e", ".", "e", "x", "e">>,
                        <<"a", ".", "c", "s", "v">>,
                        <<".", ".", "/", "a", ".", "c", "s", "v">>},
                 m \in {MimeCsv, MimeExecutavel} },
           agora \in {relogio, relogio + 1}, salvou \in BOOLEAN :
          LET pedido == [rota |-> "upload", pc |-> "fim", arquivo |-> enviado,
                         file_path |-> <<>>, validacao |-> <<>>,
                         excecao |-> "nenhuma", status |-> 400,
                         corpo |-> "Nenhum arquivo enviado"]
              caminho == file_path(enviado[1].filename, agora)
          IN IF enviado = <<>>
             THEN /\ pedidos' = Append(pedidos, pedido)
                  /\ UNCHANGED <<relogio, uploads>>
             ELSE IF enviado[1].filename = <<>>
             THEN /\ pedidos' = Append(pedidos,
                                  [pedido EXCEPT !.corpo = "Nome de arquivo vazio"])
                  /\ UNCHANGED <<relogio, uploads>>
             ELSE IF ~_allowed_file(enviado[1].filename)
             THEN /\ pedidos' = Append(pedidos,
                                  [pedido EXCEPT !.corpo = "Tipo de arquivo nao permitido"])
                  /\ UNCHANGED <<relogio, uploads>>
             ELSE IF ~salvou
             THEN /\ pedidos' = Append(pedidos,
                                  [pedido EXCEPT !.file_path = <<caminho>>,
                                                 !.excecao = "OSError",
                                                 !.status = 500,
                                                 !.corpo = "Erro no upload"])
                  /\ relogio' = agora
                  /\ UNCHANGED uploads
             ELSE /\ pedidos' = Append(pedidos,
                                  [pedido EXCEPT !.pc = "validar",
                                                 !.file_path = <<caminho>>,
                                                 !.status = 0, !.corpo = ""])
                  /\ relogio' = agora
                  /\ uploads' = Atualizar(uploads,
                       [c \in {caminho} |->
                          [tamanho_bytes |-> 1024, mime |-> enviado[1].mime,
                           tabela |-> [parse_ok |-> TRUE, linhas |-> 5, colunas |-> 1,
                                       vazias |-> 0, duplicadas |-> <<>>],
                           pedido |-> Len(pedidos) + 1]])
     /\ UNCHANGED <<servidor, analises_ativas, workers, _lock, aquisicoes,
                    varsValidador, varsBusca, varsAuditor>>
  \/ \E p \in 1..Len(pedidos) :
       /\ pedidos[p].rota = "upload"
       /\ pedidos[p].pc = "validar"
       /\ pedidos' = [pedidos EXCEPT
                        ![p].pc = "responder",
                        ![p].validacao = <<validar_arquivo(pedidos[p].file_path[1])>>]
       /\ UNCHANGED <<servidor, relogio, analises_ativas, workers, uploads, _lock,
                      aquisicoes, varsValidador, varsBusca, varsAuditor>>
  \/ \E p \in 1..Len(pedidos) :
       /\ pedidos[p].rota = "upload"
       /\ pedidos[p].pc = "responder"
       /\ LET caminho == pedidos[p].file_path[1] IN
            IF caminho \notin DOMAIN uploads
            THEN /\ pedidos' = [pedidos EXCEPT ![p].pc = "fim",
                                               ![p].excecao = "FileNotFoundError",
                                               ![p].status = 500,
                                               ![p].corpo = "Erro no upload"]
                 /\ UNCHANGED uploads
            ELSE IF pedidos[p].validacao[1].valido
            THEN /\ pedidos' = [pedidos EXCEPT ![p].pc = "fim", ![p].status = 200,
                                               ![p].corpo = "success"]
                 /\ UNCHANGED uploads
            ELSE /\ pedidos' = [pedidos EXCEPT ![p].pc = "fim", ![p].status = 400,
                                               ![p].corpo = "Arquivo rejeitado"]
                 /\ UNCHANGED uploads
       /\ UNCHANGED <<servidor, relogio, analises_ativas, workers, _lock, aquisicoes,
                      varsValidador, varsBusca, varsAuditor>>

\* POST /upload: _handle_upload (web/app.py lines 230-268), and the
\* upload_arquivo of api/index.py (lines 71-110), which has the same body.
\* The request carries no file, or one file: a name and a content, a CSV
\* table or the same bytes with the MIME type of an executable.  The steps:
\* the checks and arquivo.save, which writes the file or raises OSError;
\* validar_arquivo; the response, with os.path.getsize for a valid file and
\* os.remove for a rejected one, both raising FileNotFoundError when the
\* path names no file.  Every exception ends in the response of line 268.
_handle_upload ==
  \/ /\ servidor # "nenhum"
     /\ Len(pedidos) < MaxPedidos
     /\ \E enviado \in
             {<<>>} \cup
             { <<[filename |-> n, mime |-> m]>> :
                 n \in {<<>>, <<"e", ".", "e", "x", "e">>,
                        <<"a", ".", "c", "s", "v">>,
                        <<".", ".", "/", "a", ".", "c", "s", "v">>},
                 m \in {MimeCsv, MimeExecutavel} },
           agora \in {relogio, relogio + 1}, salvou \in BOOLEAN :
          LET pedido == [rota |-> "upload", pc |-> "fim", arquivo |-> enviado,
                         file_path |-> <<>>, validacao |-> <<>>,
                         excecao |-> "nenhuma", status |-> 400,
                         corpo |-> "Nenhum arquivo enviado"]
              caminho == file_path(enviado[1].filename, agora)
          IN IF enviado = <<>>
             THEN /\ pedidos' = Append(pedidos, pedido)
                  /\ UNCHANGED <<relogio, uploads>>
             ELSE IF enviado[1].filename = <<>>
             THEN /\ pedidos' = Append(pedidos,
                                  [pedido EXCEPT !.corpo = "Nome de arquivo vazio"])
                  /\ UNCHANGED <<relogio, uploads>>
             ELSE IF ~_allowed_file(enviado[1].filename)
             THEN /\ pedidos' = Append(pedidos,
                                  [pedido EXCEPT !.corpo = "Tipo de arquivo nao permitido"])
                  /\ UNCHANGED <<relogio, uploads>>
             ELSE IF ~salvou
             THEN /\ pedidos' = Append(pedidos,
                                  [pedido EXCEPT !.file_path = <<caminho>>,
                                                 !.excecao = "OSError",
                                                 !.status = 500,
                                                 !.corpo = "Erro no upload"])
                  /\ relogio' = agora
                  /\ UNCHANGED uploads
             ELSE /\ pedidos' = Append(pedidos,
                                  [pedido EXCEPT !.pc = "validar",
                                                 !.file_path = <<caminho>>,
                                                 !.status = 0, !.corpo = ""])
                  /\ relogio' = agora
                  /\ uploads' = Atualizar(uploads,
                       [c \in {caminho} |->
                          [tamanho_bytes |-> 1024, mime |-> enviado[1].mime,
                           tabela |-> [parse_ok |-> TRUE, linhas |-> 5, colunas |-> 1,
                                       vazias |-> 0, duplicadas |-> <<>>],
                           pedido |-> Len(pedidos) + 1]])
     /\ UNCHANGED <<servidor, analises_ativas, workers, _lock, aquisicoes,
                    varsValidador, varsBusca, varsAuditor>>
  \/ \E p \in 1..Len(pedidos) :
       /\ pedidos[p].rota = "upload"
       /\ pedidos[p].pc = "validar"
       /\ pedidos' = [pedidos EXCEPT
                        ![p].pc = "responder",
                        ![p].validacao = <<validar_arquivo(pedidos[p].file_path[1])>>]
       /\ UNCHANGED <<servidor, relogio, analises_ativas, workers, uploads, _lock,
                      aquisicoes, varsValidador, varsBusca, varsAuditor>>
  \/ \E p \in 1..Len(pedidos) :
       /\ pedidos[p].rota = "upload"
       /\ pedidos[p].pc = "responder"
       /\ LET caminho == pedidos[p].file_path[1] IN
            IF caminho \notin DOMAIN uploads
            THEN /\ pedidos' = [pedidos EXCEPT ![p].pc = "fim",
                                               ![p].excecao = "FileNotFoundError",
                                               ![p].status = 500,
                                               ![p].corpo = "Erro no upload"]
                 /\ UNCHANGED uploads
            ELSE IF pedidos[p].validacao[1].valido
            THEN /\ pedidos' = [pedidos EXCEPT ![p].pc = "fim", ![p].status = 200,
                                               ![p].corpo = "success"]
                 /\ UNCHANGED uploads
            ELSE /\ pedidos' = [pedidos EXCEPT ![p].pc = "fim", ![p].status = 400,
                                               ![p].corpo = "Arquivo rejeitado"]
                 /\ uploads' = [c \in DOMAIN uploads \ {caminho} |-> uploads[c]]
       /\ UNCHANGED <<servidor, relogio, analises_ativas, workers, _lock, aquisicoes,
                      varsValidador, varsBusca, varsAuditor>>

\* POST /analise: _processar_analise (web/app.py lines 113-228), with the
\* call of _executar_analise it ends with (lines 270-273 and 366-368).  The
\* form carries a topic, empty or not, and at most one file.  The steps:
\*   the topic check and analise_info (lines 117-134);
\*   "salvar"    lines 176-186, a file not allowed is passed over;
\*   "validar"   line 189;
\*   "aceitar"   lines 191-202;
\*   "registrar" lines 205-217: iniciar_analise, then the entry of
\*               analises_ativas;
\*   "executar"  lines 220-223: _executar_analise imports crew from
\*               sys.path, which is the environment's to allow, and starts
\*               the worker thread;
\*   "excecao"   lines 225-228, for whatever one of the steps raised.
\* "lancou" is the handler left by an exception.
_processar_analise ==
  \/ /\ servidor = "web/app.py"
     /\ Len(pedidos) < MaxPedidos
     /\ \E topico_pesquisa \in {"", "tema"},
           arquivos_locais \in
             {<<>>} \cup
             { <<[filename |-> n, mime |-> m]>> :
                 n \in {<<"e", ".", "e", "x", "e">>, <<"a", ".", "c", "s", "v">>},
                 m \in {MimeCsv, MimeExecutavel} } :
          pedidos' = Append(pedidos,
            [rota |-> "analise",
             pc |-> IF topico_pesquisa = "" THEN "fim"
                    ELSE IF arquivos_locais = <<>> THEN "registrar" ELSE "salvar",
             analise_id |-> Len(pedidos) + 1,
             topico_pesquisa |-> topico_pesquisa,
             arquivos_locais |-> arquivos_locais,
             file_path |-> <<>>, validacao |-> <<>>,
             arquivos_processados |-> <<>>,
             excecao |-> "nenhuma",
             status |-> IF topico_pesquisa = "" THEN 302 ELSE 0,
             corpo |-> IF topico_pesquisa = "" THEN "analise" ELSE ""])
     /\ UNCHANGED <<servidor, relogio, analises_ativas, workers, uploads, _lock,
                    aquisicoes, varsValidador, varsBusca, varsAuditor>>
  \/ \E p \in 1..Len(pedidos) :
       /\ pedidos[p].rota = "analise"
       /\ pedidos[p].pc = "salvar"
       /\ \E agora \in {relogio, relogio + 1}, salvou \in BOOLEAN :
            LET enviado == pedidos[p].arquivos_locais[1]
                caminho == file_path(enviado.filename, agora)
            IN IF ~_allowed_file(enviado.filename)
               THEN /\ pedidos' = [pedidos EXCEPT
                                     ![p].pc = IF Len(pedidos[p].arquivos_locais) > 1
                                               THEN "salvar" ELSE "registrar",
                                     ![p].arquivos_locais = Tail(@)]
                    /\ UNCHANGED <<relogio, uploads>>
               ELSE IF ~salvou
               THEN /\ pedidos' = [pedidos EXCEPT ![p].pc = "excecao",
                                                  ![p].file_path = <<caminho>>,
                                                  ![p].excecao = "OSError"]
                    /\ relogio' = agora
                    /\ UNCHANGED uploads
               ELSE /\ pedidos' = [pedidos EXCEPT ![p].pc = "validar",
                                                  ![p].file_path = <<caminho>>]
                    /\ relogio' = agora
                    /\ uploads' = Atualizar(uploads,
                         [c \in {caminho} |->
                            [tamanho_bytes |-> 1024, mime |-> enviado.mime,
                             tabela |-> [parse_ok |-> TRUE, linhas |-> 5, colunas |-> 1,
                                         vazias |-> 0, duplicadas |-> <<>>],
                             pedido |-> p]])
       /\ UNCHANGED <<servidor, analises_ativas, workers, _lock, aquisicoes,
                      varsValidador, varsBusca, varsAuditor>>
  \/ \E p \in 1..Len(pedidos) :
       /\ pedidos[p].rota = "analise"
       /\ pedidos[p].pc = "validar"
       /\ pedidos' = [pedidos EXCEPT
                        ![p].pc = "aceitar",
                        ![p].validacao = <<validar_arquivo(pedidos[p].file_path[1])>>]
       /\ UNCHANGED <<servidor, relogio, analises_ativas, workers, uploads, _lock,
                      aquisicoes, varsValidador, varsBusca, varsAuditor>>
  \/ \E p \in 1..Len(pedidos) :
       /\ pedidos[p].rota = "analise"
       /\ pedidos[p].pc = "aceitar"
       /\ LET caminho == pedidos[p].file_path[1] IN
            IF caminho \notin DOMAIN uploads
            THEN /\ pedidos' = [pedidos EXCEPT ![p].pc = "excecao",
                                               ![p].excecao = "FileNotFoundError"]
                 /\ UNCHANGED uploads
            ELSE IF pedidos[p].validacao[1].valido
            THEN /\ pedidos' = [pedidos EXCEPT
                                  ![p].pc = IF Len(pedidos[p].arquivos_locais) > 1
                                            THEN "salvar" ELSE "registrar",
                                  ![p].arquivos_locais = Tail(@),
                                  ![p].arquivos_processados =
                                     Append(@, [caminho |-> caminho,
                                                tamanho |-> uploads[caminho].tamanho_bytes])]
                 /\ UNCHANGED uploads
            ELSE /\ pedidos' = [pedidos EXCEPT
                                  ![p].pc = IF Len(pedidos[p].arquivos_locais) > 1
                                            THEN "salvar" ELSE "registrar",
                                  ![p].arquivos_locais = Tail(@)]
                 /\ uploads' = [c \in DOMAIN uploads \ {caminho} |-> uploads[c]]
       /\ UNCHANGED <<servidor, relogio, analises_ativas, workers, _lock, aquisicoes,
                      varsValidador, varsBusca, varsAuditor>>
  \/ \E p \in 1..Len(pedidos) :
       /\ pedidos[p].rota = "analise"
       /\ pedidos[p].pc = "registrar"
       /\ Registrar(1, "iniciar_analise", "inicio_analise", "INFO",
                    <<[topico_pesquisa |-> pedidos[p].topico_pesquisa,
                       dados_fornecidos |->
                         [arquivos_count |-> Len(pedidos[p].arquivos_processados),
                          analise_id |-> pedidos[p].analise_id]]>>,
                    <<>>, <<>>, DictVazio)
       /\ IF chamada'.excecao # "nenhuma"
          THEN /\ pedidos' = [pedidos EXCEPT ![p].pc = "excecao",
                                             ![p].excecao = chamada'.excecao]
               /\ UNCHANGED analises_ativas
          ELSE /\ pedidos' = [pedidos EXCEPT ![p].pc = "executar"]
               /\ analises_ativas' = Atualizar(analises_ativas,
                    [a \in {pedidos[p].analise_id} |->
                       [id |-> a,
                        topico_pesquisa |-> pedidos[p].topico_pesquisa,
                        status |-> "arquivos_validados",
                        arquivos |-> pedidos[p].arquivos_processados,
                        progresso |-> 25]])
       /\ UNCHANGED <<servidor, relogio, workers, uploads, _lock, aquisicoes>>
  \/ \E p \in 1..Len(pedidos) :
       /\ pedidos[p].rota = "analise"
       /\ pedidos[p].pc = "executar"
       /\ \E importou \in BOOLEAN :
            IF importou
            THEN /\ workers' = Atualizar(workers,
                      [a \in {pedidos[p].analise_id} |->
                         [pc |-> "inicio", resultados |-> <<>>, excecao |-> "nenhuma"]])
                 /\ pedidos' = [pedidos EXCEPT ![p].pc = "fim", ![p].status = 302,
                                               ![p].corpo = "resultados_analise"]
            ELSE /\ pedidos' = [pedidos EXCEPT ![p].pc = "excecao",
                                               ![p].excecao = "ImportError"]
                 /\ UNCHANGED workers
       /\ UNCHANGED <<servidor, relogio, analises_ativas, uploads, _lock, aquisicoes,
                      varsValidador, varsBusca, varsAuditor>>
  \/ \E p \in 1..Len(pedidos) :
       /\ pedidos[p].rota = "analise"
       /\ pedidos[p].pc = "excecao"
       /\ Registrar(1, "registrar_erro", "erro_sistema", "ERROR",
                    <<[erro_tipo |-> pedidos[p].excecao, erro_mensagem |-> "mensagem",
                       contexto |-> <<"processar_analise">>]>>,
                    <<>>, <<>>, DictVazio)
       /\ pedidos' = IF chamada'.excecao # "nenhuma"
                     THEN [pedidos EXCEPT ![p].pc = "lancou",
                                          ![p].excecao = chamada'.excecao]
                     ELSE [pedidos EXCEPT ![p].pc = "fim", ![p].status = 302,
                                          ![p].corpo = "analise"]
       /\ UNCHANGED <<servidor, relogio, analises_ativas, workers, uploads, _lock,
                      aquisicoes>>

\* A worker that skips the status executando_analise.
analise_worker_SemExecutando ==
  \E a \in DOMAIN workers :
    LET update(campos) ==
          IF a \in DOMAIN analises_ativas
          THEN [analises_ativas EXCEPT ![a] = Atualizar(@, campos)]
          ELSE analises_ativas
    IN
    \/ /\ workers[a].pc = "inicio"
       /\ analises_ativas' = update([status |-> "processando_dados", progresso |-> 25])
       /\ workers' = [workers EXCEPT ![a].pc = "dados"]
       /\ UNCHANGED <<servidor, relogio, pedidos, uploads, _lock, aquisicoes,
                      varsValidador, varsBusca, varsAuditor>>
    \/ /\ workers[a].pc = "dados"
       /\ analises_ativas' = update([status |-> "processando_dados", progresso |-> 50])
       /\ workers' = [workers EXCEPT ![a].pc = "kickoff"]
       /\ UNCHANGED <<servidor, relogio, pedidos, uploads, _lock, aquisicoes,
                      varsValidador, varsBusca, varsAuditor>>
    \/ /\ workers[a].pc = "kickoff"
       /\ \E retornou \in BOOLEAN :
            IF retornou
            THEN /\ analises_ativas' = update([status |-> "gerando_relatorio",
                                               progresso |-> 90,
                                               resultados |-> "resultados"])
                 /\ workers' = [workers EXCEPT ![a].pc = "concluir",
                                               ![a].resultados = <<"resultados">>]
            ELSE /\ workers' = [workers EXCEPT ![a].pc = "excecao",
                                               ![a].excecao = "Exception"]
                 /\ UNCHANGED analises_ativas
       /\ UNCHANGED <<servidor, relogio, pedidos, uploads, _lock, aquisicoes,
                      varsValidador, varsBusca, varsAuditor>>
    \/ /\ workers[a].pc = "concluir"
       /\ analises_ativas' = update([status |-> "concluida", progresso |-> 100])
       /\ Registrar(1, "finalizar_analise", "resultado_analise", "INFO", <<>>,
                    <<[sucesso |-> TRUE,
                       resultados_resumo |->
                         [analise_id |-> a, progresso_final |-> 100,
                          resultados_crew |-> workers[a].resultados[1]]]>>,
                    <<>>, DictVazio)
       /\ workers' = IF chamada'.excecao # "nenhuma"
                     THEN [workers EXCEPT ![a].pc = "excecao",
                                          ![a].excecao = chamada'.excecao]
                     ELSE [workers EXCEPT ![a].pc = "fim"]
       /\ UNCHANGED <<servidor, relogio, pedidos, uploads, _lock, aquisicoes>>
    \/ /\ workers[a].pc = "excecao"
       /\ Registrar(1, "registrar_erro", "erro_sistema", "ERROR",
                    <<[erro_tipo |-> workers[a].excecao, erro_mensagem |-> "mensagem",
                       contexto |-> <<"analise", a>>]>>,
                    <<>>, <<>>, DictVazio)
       /\ IF chamada'.excecao # "nenhuma"
          THEN /\ workers' = [workers EXCEPT ![a].pc = "lancou",
                                             ![a].excecao = chamada'.excecao]
               /\ UNCHANGED analises_ativas
          ELSE /\ workers' = [workers EXCEPT ![a].pc = "fim"]
               /\ analises_ativas' = update([status |-> "erro", erro |-> "mensagem"])
       /\ UNCHANGED <<servidor, relogio, pedidos, uploads, _lock, aquisicoes>>

\* A worker whose finalizar_analise raises after the status was set to
\* concluida, so that its except block runs.
analise_worker_ErroAposConcluir ==
  \E a \in DOMAIN workers :
    LET update(campos) ==
          IF a \in DOMAIN analises_ativas
          THEN [analises_ativas EXCEPT ![a] = Atualizar(@, campos)]
          ELSE analises_ativas
    IN
    \/ /\ workers[a].pc = "inicio"
       /\ analises_ativas' = update([status |-> "executando_analise", progresso |-> 25])
       /\ workers' = [workers EXCEPT ![a].pc = "dados"]
       /\ UNCHANGED <<servidor, relogio, pedidos, uploads, _lock, aquisicoes,
                      varsValidador, varsBusca, varsAuditor>>
    \/ /\ workers[a].pc = "dados"
       /\ analises_ativas' = update([status |-> "processando_dados", progresso |-> 50])
       /\ workers' = [workers EXCEPT ![a].pc = "kickoff"]
       /\ UNCHANGED <<servidor, relogio, pedidos, uploads, _lock, aquisicoes,
                      varsValidador, varsBusca, varsAuditor>>
    \/ /\ workers[a].pc = "kickoff"
       /\ \E retornou \in BOOLEAN :
            IF retornou
            THEN /\ analises_ativas' = update([status |-> "gerando_relatorio",
                                               progresso |-> 90,
                                               resultados |-> "resultados"])
                 /\ workers' = [workers EXCEPT ![a].pc = "concluir",
                                               ![a].resultados = <<"resultados">>]
            ELSE /\ workers' = [workers EXCEPT ![a].pc = "excecao",
                                               ![a].excecao = "Exception"]
                 /\ UNCHANGED analises_ativas
       /\ UNCHANGED <<servidor, relogio, pedidos, uploads, _lock, aquisicoes,
                      varsValidador, varsBusca, varsAuditor>>
    \/ /\ workers[a].pc = "concluir"
       /\ analises_ativas' = update([status |-> "concluida", progresso |-> 100])
       /\ Registrar(1, "finalizar_analise", "resultado_analise", "INFO", <<>>,
                    <<[sucesso |-> TRUE,
                       resultados_resumo |->
                         [analise_id |-> a, progresso_final |-> 100,
                          resultados_crew |-> workers[a].resultados[1]]]>>,
                    <<>>, DictVazio)
       /\ workers' = [workers EXCEPT ![a].pc = "excecao",
                                     ![a].excecao = "AttributeError"]
       /\ UNCHANGED <<servidor, relogio, pedidos, uploads, _lock, aquisicoes>>
    \/ /\ workers[a].pc = "excecao"
       /\ Registrar(1, "registrar_erro", "erro_sistema", "ERROR",
                    <<[erro_tipo |-> workers[a].excecao, erro_mensagem |-> "mensagem",
                       contexto |-> <<"analise", a>>]>>,
                    <<>>, <<>>, DictVazio)
       /\ IF chamada'.excecao # "nenhuma"
          THEN /\ workers' = [workers EXCEPT ![a].pc = "lancou",
                                             ![a].excecao = chamada'.excecao]
               /\ UNCHANGED analises_ativas
          ELSE /\ workers' = [workers EXCEPT ![a].pc = "fim"]
               /\ analises_ativas' = update([status |-> "erro", erro |-> "mensagem"])
       /\ UNCHANGED <<servidor, relogio, pedidos, uploads, _lock, aquisicoes>>

\* A worker whose except block marks every tracked analysis as failed.
analise_worker_ErroGlobal ==
  \E a \in DOMAIN workers :
    LET update(campos) ==
          IF a \in DOMAIN analises_ativas
          THEN [analises_ativas EXCEPT ![a] = Atualizar(@, campos)]
          ELSE analises_ativas
    IN
    \/ /\ workers[a].pc = "inicio"
       /\ analises_ativas' = update([status |-> "executando_analise", progresso |-> 25])
       /\ workers' = [workers EXCEPT ![a].pc = "dados"]
       /\ UNCHANGED <<servidor, relogio, pedidos, uploads, _lock, aquisicoes,
                      varsValidador, varsBusca, varsAuditor>>
    \/ /\ workers[a].pc = "dados"
       /\ analises_ativas' = update([status |-> "processando_dados", progresso |-> 50])
       /\ workers' = [workers EXCEPT ![a].pc = "kickoff"]
       /\ UNCHANGED <<servidor, relogio, pedidos, uploads, _lock, aquisicoes,
                      varsValidador, varsBusca, varsAuditor>>
    \/ /\ workers[a].pc = "kickoff"
       /\ \E retornou \in BOOLEAN :
            IF retornou
            THEN /\ analises_ativas' = update([status |-> "gerando_relatorio",
                                               progresso |-> 90,
                                               resultados |-> "resultados"])
                 /\ workers' = [workers EXCEPT ![a].pc = "concluir",
                                               ![a].resultados = <<"resultados">>]
            ELSE /\ workers' = [workers EXCEPT ![a].pc = "excecao",
                                               ![a].excecao = "Exception"]
                 /\ UNCHANGED analises_ativas
       /\ UNCHANGED <<servidor, relogio, pedidos, uploads, _lock, aquisicoes,
                      varsValidador, varsBusca, varsAuditor>>
    \/ /\ workers[a].pc = "concluir"
       /\ analises_ativas' = update([status |-> "concluida", progresso |-> 100])
       /\ Registrar(1, "finalizar_analise", "resultado_analise", "INFO", <<>>,
                    <<[sucesso |-> TRUE,
                       resultados_resumo |->
                         [analise_id |-> a, progresso_final |-> 100,
                          resultados_crew |-> workers[a].resultados[1]]]>>,
                    <<>>, DictVazio)
       /\ workers' = IF chamada'.excecao # "nenhuma"
                     THEN [workers EXCEPT ![a].pc = "excecao",
                                          ![a].excecao = chamada'.excecao]
                     ELSE [workers EXCEPT ![a].pc = "fim"]
       /\ UNCHANGED <<servidor, relogio, pedidos, uploads, _lock, aquisicoes>>
    \/ /\ workers[a].pc = "excecao"
       /\ Registrar(1, "registrar_erro", "erro_sistema", "ERROR",
                    <<[erro_tipo |-> workers[a].excecao, erro_mensagem |-> "mensagem",
                       contexto |-> <<"analise", a>>]>>,
                    <<>>, <<>>, DictVazio)
       /\ IF chamada'.excecao # "nenhuma"
          THEN /\ workers' = [workers EXCEPT ![a].pc = "lancou",
                                             ![a].excecao = chamada'.excecao]
               /\ UNCHANGED analises_ativas
          ELSE /\ workers' = [workers EXCEPT ![a].pc = "fim"]
               /\ analises_ativas' =
                    [b \in DOMAIN analises_ativas |->
                       Atualizar(analises_ativas[b],
                                 [status |-> "erro", erro |-> "mensagem"])]
       /\ UNCHANGED <<servidor, relogio, pedidos, uploads, _lock, aquisicoes>>

\* A worker whose except block resets the progresso of the analysis.
analise_worker_ProgressoZero ==
  \E a \in DOMAIN workers :
    LET update(campos) ==
          IF a \in DOMAIN analises_ativas
          THEN [analises_ativas EXCEPT ![a] = Atualizar(@, campos)]
          ELSE analises_ativas
    IN
    \/ /\ workers[a].pc = "inicio"
       /\ analises_ativas' = update([status |-> "executando_analise", progresso |-> 25])
       /\ workers' = [workers EXCEPT ![a].pc = "dados"]
       /\ UNCHANGED <<servidor, relogio, pedidos, uploads, _lock, aquisicoes,
                      varsValidador, varsBusca, varsAuditor>>
    \/ /\ workers[a].pc = "dados"
       /\ analises_ativas' = update([status |-> "processando_dados", progresso |-> 50])
       /\ workers' = [workers EXCEPT ![a].pc = "kickoff"]
       /\ UNCHANGED <<servidor, relogio, pedidos, uploads, _lock, aquisicoes,
                      varsValidador, varsBusca, varsAuditor>>
    \/ /\ workers[a].pc = "kickoff"
       /\ \E retornou \in BOOLEAN :
            IF retornou
            THEN /\ analises_ativas' = update([status |-> "gerando_relatorio",
                                               progresso |-> 90,
                                               resultados |-> "resultados"])
                 /\ workers' = [workers EXCEPT ![a].pc = "concluir",
                                               ![a].resultados = <<"resultados">>]
            ELSE /\ workers' = [workers EXCEPT ![a].pc = "excecao",
                                               ![a].excecao = "Exception"]
                 /\ UNCHANGED analises_ativas
       /\ UNCHANGED <<servidor, relogio, pedidos, uploads, _lock, aquisicoes,
                      varsValidador, varsBusca, varsAuditor>>
    \/ /\ workers[a].pc = "concluir"
       /\ analises_ativas' = update([status |-> "concluida", progresso |-> 100])
       /\ Registrar(1, "finalizar_analise", "resultado_analise", "INFO", <<>>,
                    <<[sucesso |-> TRUE,
                       resultados_resumo |->
                         [analise_id |-> a, progresso_final |-> 100,
                          resultados_crew |-> workers[a].resultados[1]]]>>,
                    <<>>, DictVazio)
       /\ workers' = IF chamada'.excecao # "nenhuma"
                     THEN [workers EXCEPT ![a].pc = "excecao",
                                          ![a].excecao = chamada'.excecao]
                     ELSE [workers EXCEPT ![a].pc = "fim"]
       /\ UNCHANGED <<servidor, relogio, pedidos, uploads, _lock, aquisicoes>>
    \/ /\ workers[a].pc = "excecao"
       /\ Registrar(1, "registrar_erro", "erro_sistema", "ERROR",
                    <<[erro_tipo |-> workers[a].excecao, erro_mensagem |-> "mensagem",
                       contexto |-> <<"analise", a>>]>>,
                    <<>>, <<>>, DictVazio)
       /\ IF chamada'.excecao # "nenhuma"
          THEN /\ workers' = [workers EXCEPT ![a].pc = "lancou",
                                             ![a].excecao = chamada'.excecao]
               /\ UNCHANGED analises_ativas
          ELSE /\ workers' = [workers EXCEPT ![a].pc = "fim"]
               /\ analises_ativas' = update([status |-> "erro", erro |-> "mensagem", progresso |-> 0])
       /\ UNCHANGED <<servidor, relogio, pedidos, uploads, _lock, aquisicoes>>

\* analise_worker (web/app.py lines 275-363), the thread _executar_analise
\* starts for the analysis a.  The steps:
\*   "inicio"   lines 278-283;
\*   "dados"    lines 286-301;
\*   "kickoff"  lines 304-332: the import of the crew and crew.kickoff
\*              return, and the results are stored, or one of them raises;
\*   "concluir" lines 335-351: the final update, then finalizar_analise;
\*   "excecao"  lines 353-363: registrar_erro, then the update to erro.
\* "lancou" is the thread ended by an exception.
analise_worker ==
  \E a \in DOMAIN workers :
    LET update(campos) ==
          IF a \in DOMAIN analises_ativas
          THEN [analises_ativas EXCEPT ![a] = Atualizar(@, campos)]
          ELSE analises_ativas
    IN
    \/ /\ workers[a].pc = "inicio"
       /\ analises_ativas' = update([status |-> "executando_analise", progresso |-> 25])
       /\ workers' = [workers EXCEPT ![a].pc = "dados"]
       /\ UNCHANGED <<servidor, relogio, pedidos, uploads, _lock, aquisicoes,
                      varsValidador, varsBusca, varsAuditor>>
    \/ /\ workers[a].pc = "dados"
       /\ analises_ativas' = update([status |-> "processando_dados", progresso |-> 50])
       /\ workers' = [workers EXCEPT ![a].pc = "kickoff"]
       /\ UNCHANGED <<servidor, relogio, pedidos, uploads, _lock, aquisicoes,
                      varsValidador, varsBusca, varsAuditor>>
    \/ /\ workers[a].pc = "kickoff"
       /\ \E retornou \in BOOLEAN :
            IF retornou
            THEN /\ analises_ativas' = update([status |-> "gerando_relatorio",
                                               progresso |-> 90,
                                               resultados |-> "resultados"])
                 /\ workers' = [workers EXCEPT ![a].pc = "concluir",
                                               ![a].resultados = <<"resultados">>]
            ELSE /\ workers' = [workers EXCEPT ![a].pc = "excecao",
                                               ![a].excecao = "Exception"]
                 /\ UNCHANGED analises_ativas
       /\ UNCHANGED <<servidor, relogio, pedidos, uploads, _lock, aquisicoes,
                      varsValidador, varsBusca, varsAuditor>>
    \/ /\ workers[a].pc = "concluir"
       /\ analises_ativas' = update([status |-> "concluida", progresso |-> 100])
       /\ Registrar(1, "finalizar_analise", "resultado_analise", "INFO", <<>>,
                    <<[sucesso |-> TRUE,
                       resultados_resumo |->
                         [analise_id |-> a, progresso_final |-> 100,
                          resultados_crew |-> workers[a].resultados[1]]]>>,
                    <<>>, DictVazio)
       /\ workers' = IF chamada'.excecao # "nenhuma"
                     THEN [workers EXCEPT ![a].pc = "excecao",
                                          ![a].excecao = chamada'.excecao]
                     ELSE [workers EXCEPT ![a].pc = "fim"]
       /\ UNCHANGED <<servidor, relogio, pedidos, uploads, _lock, aquisicoes>>
    \/ /\ workers[a].pc = "excecao"
       /\ Registrar(1, "registrar_erro", "erro_sistema", "ERROR",
                    <<[erro_tipo |-> workers[a].excecao, erro_mensagem |-> "mensagem",
                       contexto |-> <<"analise", a>>]>>,
                    <<>>, <<>>, DictVazio)
       /\ IF chamada'.excecao # "nenhuma"
          THEN /\ workers' = [workers EXCEPT ![a].pc = "lancou",
                                             ![a].excecao = chamada'.excecao]
               /\ UNCHANGED analises_ativas
          ELSE /\ workers' = [workers EXCEPT ![a].pc = "fim"]
               /\ analises_ativas' = update([status |-> "erro", erro |-> "mensagem"])
       /\ UNCHANGED <<servidor, relogio, pedidos, uploads, _lock, aquisicoes>>

\* POST /api/analisar of api/index.py (lines 112-189): the analysis runs on
\* the thread of the request.  The body is JSON with a topic, or no JSON at
\* all (request.get_json() gives None).  The steps:
\*   lines 115-137: the checks, iniciar_analise and the entry of
\*             analises_ativas;
\*   "kickoff" lines 140-174: the crew returns, or its import or the crew
\*             raises;
\*   "excecao" lines 176-186.
\* An exception outside the inner try ends in the response of line 189.
api_analisar ==
  \/ /\ servidor = "api/index.py"
     /\ Len(pedidos) < MaxPedidos
     /\ \E data \in {<<>>, <<[topico_pesquisa |-> ""]>>, <<[topico_pesquisa |-> "tema"]>>} :
          LET pedido == [rota |-> "api_analisar", pc |-> "fim",
                         analise_id |-> Len(pedidos) + 1, data |-> data,
                         excecao |-> "AttributeError", status |-> 500,
                         corpo |-> "Erro geral"]
          IN IF data = <<>>
             THEN /\ pedidos' = Append(pedidos, pedido)
                  /\ UNCHANGED <<analises_ativas, varsAuditor>>
             ELSE IF data[1].topico_pesquisa = ""
             THEN /\ pedidos' = Append(pedidos,
                       [pedido EXCEPT !.excecao = "nenhuma", !.status = 400,
                                      !.corpo = "Topico de pesquisa obrigatorio"])
                  /\ UNCHANGED <<analises_ativas, varsAuditor>>
             ELSE /\ Registrar(1, "iniciar_analise", "inicio_analise", "INFO",
                               <<[topico_pesquisa |-> data[1].topico_pesquisa,
                                  dados_fornecidos |-> [analise_id |-> pedido.analise_id]]>>,
                               <<>>, <<>>, DictVazio)
                  /\ IF chamada'.excecao # "nenhuma"
                     THEN /\ pedidos' = Append(pedidos, pedido)
                          /\ UNCHANGED analises_ativas
                     ELSE /\ pedidos' = Append(pedidos,
                               [pedido EXCEPT !.pc = "kickoff", !.excecao = "nenhuma",
                                              !.status = 0, !.corpo = ""])
                          /\ analises_ativas' = Atualizar(analises_ativas,
                               [a \in {pedido.analise_id} |->
                                  [id |-> a,
                                   topico_pesquisa |-> data[1].topico_pesquisa,
                                   status |-> "processando",
                                   progresso |-> 0]])
     /\ UNCHANGED <<servidor, relogio, workers, uploads, _lock, aquisicoes,
                    varsValidador, varsBusca>>
  \/ \E p \in 1..Len(pedidos) :
       /\ pedidos[p].rota = "api_analisar"
       /\ pedidos[p].pc = "kickoff"
       /\ \E retornou \in BOOLEAN :
            IF retornou
            THEN /\ analises_ativas' =
                      [analises_ativas EXCEPT ![pedidos[p].analise_id] =
                         Atualizar(@, [status |-> "concluida", progresso |-> 100,
                                       resultados |-> "resultados"])]
                 /\ Registrar(1, "finalizar_analise", "resultado_analise", "INFO", <<>>,
                              <<[sucesso |-> TRUE,
                                 resultados_resumo |->
                                   [analise_id |-> pedidos[p].analise_id,
                                    resultados_crew |-> "resultados"]]>>,
                              <<>>, DictVazio)
                 /\ pedidos' = IF chamada'.excecao # "nenhuma"
                               THEN [pedidos EXCEPT ![p].pc = "excecao",
                                                    ![p].excecao = chamada'.excecao]
                               ELSE [pedidos EXCEPT ![p].pc = "fim", ![p].status = 200,
                                                    ![p].corpo = "success"]
            ELSE /\ pedidos' = [pedidos EXCEPT ![p].pc = "excecao",
                                               ![p].excecao = "Exception"]
                 /\ UNCHANGED <<analises_ativas, varsAuditor>>
       /\ UNCHANGED <<servidor, relogio, workers, uploads, _lock, aquisicoes,
                      varsValidador, varsBusca>>
  \/ \E p \in 1..Len(pedidos) :
       /\ pedidos[p].rota = "api_analisar"
       /\ pedidos[p].pc = "excecao"
       /\ analises_ativas' =
            [analises_ativas EXCEPT ![pedidos[p].analise_id] =
               Atualizar(@, [status |-> "erro", erro |-> "mensagem"])]
       /\ Registrar(1, "registrar_erro", "erro_sistema", "ERROR",
                    <<[erro_tipo |-> pedidos[p].excecao, erro_mensagem |-> "mensagem",
                       contexto |-> <<"analise", pedidos[p].analise_id>>]>>,
                    <<>>, <<>>, DictVazio)
       /\ pedidos' = IF chamada'.excecao # "nenhuma"
                     THEN [pedidos EXCEPT ![p].pc = "fim", ![p].status = 500,
                                          ![p].excecao = chamada'.excecao,
                                          ![p].corpo = "Erro geral"]
                     ELSE [pedidos EXCEPT ![p].pc = "fim", ![p].status = 500,
                                          ![p].corpo = "Erro na analise"]
       /\ UNCHANGED <<servidor, relogio, workers, uploads, _lock, aquisicoes>>

\* POST /analise of api/index.py: processar_analise (lines 223-283).  The
\* steps:
\*   lines 225-243: the topic check and the entry of analises_ativas;
\*   "kickoff" lines 246-268;
\*   "excecao" lines 270-278; when registrar_erro raises there, the handler
\*             of lines 280-283 calls it again and the exception leaves
\*             the function ("lancou").
processar_analise ==
  \/ /\ servidor = "api/index.py"
     /\ Len(pedidos) < MaxPedidos
     /\ \E topico_pesquisa \in {"", "tema"} :
          /\ pedidos' = Append(pedidos,
               [rota |-> "processar_analise",
                pc |-> IF topico_pesquisa = "" THEN "fim" ELSE "kickoff",
                analise_id |-> Len(pedidos) + 1,
                topico_pesquisa |-> topico_pesquisa,
                excecao |-> "nenhuma",
                status |-> IF topico_pesquisa = "" THEN 302 ELSE 0,
                corpo |-> IF topico_pesquisa = "" THEN "analise" ELSE ""])
          /\ analises_ativas' =
               IF topico_pesquisa = "" THEN analises_ativas
               ELSE Atualizar(analises_ativas,
                      [a \in {Len(pedidos) + 1} |->
                         [id |-> a, topico_pesquisa |-> topico_pesquisa,
                          status |-> "processando", progresso |-> 0]])
     /\ UNCHANGED <<servidor, relogio, workers, uploads, _lock, aquisicoes,
                    varsValidador, varsBusca, varsAuditor>>
  \/ \E p \in 1..Len(pedidos) :
       /\ pedidos[p].rota = "processar_analise"
       /\ pedidos[p].pc = "kickoff"
       /\ \E retornou \in BOOLEAN :
            IF retornou
            THEN /\ analises_ativas' =
                      [analises_ativas EXCEPT ![pedidos[p].analise_id] =
                         Atualizar(@, [status |-> "concluida", progresso |-> 100,
                                       resultados |-> "resultados"])]
                 /\ pedidos' = [pedidos EXCEPT ![p].pc = "fim", ![p].status = 302,
                                               ![p].corpo = "resultados_analise"]
            ELSE /\ pedidos' = [pedidos EXCEPT ![p].pc = "excecao",
                                               ![p].excecao = "Exception"]
                 /\ UNCHANGED analises_ativas
       /\ UNCHANGED <<servidor, relogio, workers, uploads, _lock, aquisicoes,
                      varsValidador, varsBusca, varsAuditor>>
  \/ \E p \in 1..Len(pedidos) :
       /\ pedidos[p].rota = "processar_analise"
       /\ pedidos[p].pc = "excecao"
       /\ analises_ativas' =
            [analises_ativas EXCEPT ![pedidos[p].analise_id] =
               Atualizar(@, [status |-> "erro", erro |-> "mensagem"])]
       /\ Registrar(1, "registrar_erro", "erro_sistema", "ERROR",
                    <<[erro_tipo |-> pedidos[p].excecao, erro_mensagem |-> "mensagem",
                       contexto |-> <<"analise", pedidos[p].analise_id>>]>>,
                    <<>>, <<>>, DictVazio)
       /\ pedidos' = IF chamada'.excecao # "nenhuma"
                     THEN [pedidos EXCEPT ![p].pc = "lancou",
                                          ![p].excecao = chamada'.excecao]
                     ELSE [pedidos EXCEPT ![p].pc = "fim", ![p].status = 302,
                                          ![p].corpo = "analise"]
       /\ UNCHANGED <<servidor, relogio, workers, uploads, _lock, aquisicoes>>

\* A web process after its module is imported and before its first
\* request: importing tools/academic_logger.py has constructed
\* auditor_global, the first AcademicAuditor of the process (web/app.py
\* lines 13 and 43-47, api/index.py lines 19 and 43-47).
InitWeb ==
  /\ config = config_padrao
  /\ ValidadorOcioso
  /\ BuscaOciosa
  /\ servidor \in {"web/app.py", "api/index.py"}
  /\ \E ambiente \in Ambientes :
       /\ config_log = ambiente.config
       /\ loggers = _setup_logging(LoggersIniciais(ambiente.raiz)).loggers
       /\ auditores =
            <<[sessao_id |-> 1, usuario_id |-> "sistema",
               atributos |-> _setup_logging(LoggersIniciais(ambiente.raiz)).atributos,
               _eventos_auditoria |-> <<>>]>>
  /\ registros = <<>>
  /\ arquivo_audit = <<>>
  /\ arquivo_log = <<>>
  /\ chamada = Chamada("__init__", 1, "", "nenhuma", <<>>)
  /\ relogio = 0
  /\ pedidos = <<>>
  /\ analises_ativas = DictVazio
  /\ workers = DictVazio
  /\ uploads = DictVazio
  /\ _lock = 0
  /\ aquisicoes = <<>>

NextWeb ==
  \/ _processar_analise
  \/ analise_worker
  \/ _handle_upload
  \/ api_analisar
  \/ processar_analise

SpecWeb == InitWeb /\ [][NextWeb]_vars

(***************************************************************************)
(* Vocabulary of the properties of the web shell.                          *)
(***************************************************************************)
Analises == DOMAIN analises_ativas

Terminais == {"concluida", "erro"}

\* The status an entry of analises_ativas is inserted with, and the changes
\* of status the handlers and the worker of a server make.
StatusInicial ==
  IF servidor = "web/app.py" THEN "arquivos_validados" ELSE "processando"

Transicoes ==
  IF servidor = "web/app.py"
  THEN { <<"arquivos_validados", "executando_analise">>,
         <<"executando_analise", "processando_dados">>,
         <<"processando_dados", "gerando_relatorio">>,
         <<"processando_dados", "erro">>,
         <<"gerando_relatorio", "concluida">> }
  ELSE { <<"processando", "concluida">>, <<"processando", "erro">> }

\* The lifecycle as the specification draws it.
CicloDeclarado ==
  { <<"processando", "arquivos_validados">>, <<"processando", "erro">>,
    <<"arquivos_validados", "executando_analise">>,
    <<"executando_analise", "concluida">>, <<"executando_analise", "erro">> }

(***************************************************************************)
(* C21 as stated: the status of an analysis is one of processando,         *)
(* arquivos_validados, executando_analise, concluida and erro, and each    *)
(* change of status is a step of processando -> (arquivos_validados |      *)
(* erro) -> executando_analise -> (concluida | erro).  Violated: the       *)
(* worker of web/app.py passes through processando_dados and               *)
(* gerando_relatorio, and api/index.py goes from processando to concluida. *)
(***************************************************************************)
C21_Original ==
  [][\A a \in DOMAIN analises_ativas' :
       /\ analises_ativas'[a].status \in
            {"processando", "arquivos_validados", "executando_analise",
             "concluida", "erro"}
       /\ a \in Analises =>
            \/ analises_ativas'[a].status = analises_ativas[a].status
            \/ <<analises_ativas[a].status, analises_ativas'[a].status>>
                 \in CicloDeclarado]_vars

(***************************************************************************)
(* C21, amended: in web/app.py an analysis enters analises_ativas as       *)
(* arquivos_validados and its status changes only along                    *)
(* arquivos_validados -> executando_analise -> processando_dados ->        *)
(* (gerando_relatorio | erro), gerando_relatorio -> concluida; in          *)
(* api/index.py it enters as processando and changes only to concluida or  *)
(* erro.  So concluida is reached in web/app.py only through               *)
(* arquivos_validados and executando_analise.                              *)
(***************************************************************************)
C21_CicloDeVida ==
  [][\A a \in DOMAIN analises_ativas' :
       IF a \in Analises
       THEN \/ analises_ativas'[a].status = analises_ativas[a].status
            \/ <<analises_ativas[a].status, analises_ativas'[a].status>> \in Transicoes
       ELSE analises_ativas'[a].status = StatusInicial]_vars

\* web/app.py with two finished analyses, one concluida after the whole
\* chain of its worker and one erro.
C21_Witness ==
  /\ servidor = "web/app.py"
  /\ Cardinality(Analises) = 2
  /\ \E a \in Analises : analises_ativas[a].status = "concluida"
  /\ \E a \in Analises : analises_ativas[a].status = "erro"
  /\ \A a \in Analises : workers[a].pc = "fim"

(***************************************************************************)
(* C22: concluida and erro are terminal.  Once the status of an analysis   *)
(* is concluida or erro, no step of a worker or of a request handler       *)
(* changes it: nothing leaves erro, and concluida never becomes erro.      *)
(***************************************************************************)
C22_TerminaisSaoFinais ==
  [][\A a \in Analises :
       analises_ativas[a].status \in Terminais =>
         /\ a \in DOMAIN analises_ativas'
         /\ analises_ativas'[a].status = analises_ativas[a].status]_vars

\* An analysis ended in erro and, after it, a second one ran to concluida
\* and finalizar_analise was recorded for it.
C22_Witness ==
  /\ 1 \in Analises
  /\ analises_ativas[1].status = "erro"
  /\ 2 \in Analises
  /\ analises_ativas[2].status = "concluida"
  /\ chamada.metodo = "finalizar_analise"

\* The erro_sistema events of auditor_global for the exception e, with one
\* of the context labels.
RegistradoComo(e, rotulos) ==
  \E k \in 1..Len(auditores[1]._eventos_auditoria) :
    LET evento == auditores[1]._eventos_auditoria[k] IN
      /\ evento.evento_tipo = "erro_sistema"
      /\ evento.dados_entrada.erro_tipo = e
      /\ evento.dados_entrada.contexto[1] \in rotulos

(***************************************************************************)
(* C23: in web/app.py every exception caught at a boundary (the handler of *)
(* POST /analise, the handler of POST /upload, the worker) has left an     *)
(* erro_sistema event with the label of its stage once the except block    *)
(* has run, and no exception leaves a handler or a worker.  Violated: the  *)
(* except block of _handle_upload answers 500 without calling              *)
(* registrar_erro.                                                         *)
(***************************************************************************)
C23_ExcecoesRegistradas ==
  servidor = "web/app.py" =>
    /\ \A p \in 1..Len(pedidos) :
         /\ pedidos[p].pc # "lancou"
         /\ pedidos[p].pc = "fim" /\ pedidos[p].excecao # "nenhuma" =>
              RegistradoComo(pedidos[p].excecao,
                             IF pedidos[p].rota = "analise" THEN {"processar_analise"}
                             ELSE {"handle_upload", "upload"})
    /\ \A a \in DOMAIN workers :
         /\ workers[a].pc # "lancou"
         /\ workers[a].pc = "fim" /\ workers[a].excecao # "nenhuma" =>
              RegistradoComo(workers[a].excecao, {"analise"})

\* The entries of analises_ativas other than that of the analysis a are
\* the same before and after the step.
SoMexeEm(a) ==
  /\ Analises \ {a} \subseteq DOMAIN analises_ativas'
  /\ DOMAIN analises_ativas' \subseteq Analises \cup {a}
  /\ \A b \in Analises \ {a} : analises_ativas'[b] = analises_ativas[b]

(***************************************************************************)
(* C24: a step of the worker of the analysis a, its failure path included, *)
(* and a step of the request that created a, change no entry of            *)
(* analises_ativas but that of a, whatever the other workers and requests  *)
(* are doing.                                                              *)
(***************************************************************************)
C24_SoAPropriaEntrada ==
  [][/\ \A a \in DOMAIN workers : workers'[a] # workers[a] => SoMexeEm(a)
     /\ \A p \in 1..Len(pedidos) :
          pedidos'[p] # pedidos[p] =>
            SoMexeEm(IF "analise_id" \in DOMAIN pedidos[p]
                     THEN pedidos[p].analise_id ELSE 0)]_vars

\* The worker of the first analysis failed while the second analysis was
\* being executed, and the second is still where it was.
C24_Witness ==
  /\ 1 \in DOMAIN workers
  /\ workers[1].pc = "fim"
  /\ analises_ativas[1].status = "erro"
  /\ 2 \in DOMAIN workers
  /\ workers[2].pc = "kickoff"
  /\ analises_ativas[2].status = "processando_dados"
  /\ chamada.metodo = "registrar_erro"

\* The upload requests that have sent their response.
Respondidos == {p \in 1..Len(pedidos) : pedidos[p].rota = "upload" /\ pedidos[p].pc = "fim"}

EntradasValidas(m) ==
  \A a \in DOMAIN m :
    /\ m[a].progresso \in 0..100
    /\ m[a].status = "concluida" =>
         /\ m[a].progresso = 100
         /\ "resultados" \in DOMAIN m[a]
    /\ m[a].status = "erro" => "erro" \in DOMAIN m[a]

(***************************************************************************)
(* C30: in every state a step leads to, the progresso of every analysis    *)
(* is between 0 and 100, a concluida analysis has progresso 100 and a      *)
(* resultados field, an erro analysis has an erro field; and no step       *)
(* lowers the progresso of an entry or removes an entry.                   *)
(***************************************************************************)
C30_ProgressoEEntradas ==
  [][/\ EntradasValidas(analises_ativas')
     /\ \A a \in Analises :
          /\ a \in DOMAIN analises_ativas'
          /\ analises_ativas'[a].progresso >= analises_ativas[a].progresso]_vars

\* One analysis finished with its results at 100, the other failed half
\* way and keeps the progresso it had.
C30_Witness ==
  /\ Analises = {1, 2}
  /\ analises_ativas[1].status = "concluida"
  /\ analises_ativas[1].progresso = 100
  /\ "resultados" \in DOMAIN analises_ativas[1]
  /\ analises_ativas[2].status = "erro"
  /\ analises_ativas[2].progresso = 50
  /\ "erro" \in DOMAIN analises_ativas[2]

\* The requests that have saved a file: arquivo.save returned.
Salvaram ==
  {p \in 1..Len(pedidos) : /\ "file_path" \in DOMAIN pedidos[p]
                           /\ pedidos[p].file_path # <<>>
                           /\ pedidos[p].excecao # "OSError"}

(***************************************************************************)
(* C27: two requests that saved a file saved at different paths, and the   *)
(* file of an upload that was answered with success is in the folder as    *)
(* that request wrote it: no other request has written over it or removed  *)
(* it.                                                                     *)
(***************************************************************************)
C27_CaminhosDistintos ==
  /\ \A p, q \in Salvaram : p # q => pedidos[p].file_path # pedidos[q].file_path
  /\ \A p \in Salvaram :
       pedidos[p].rota = "upload" /\ pedidos[p].status = 200 =>
         /\ pedidos[p].file_path[1] \in DOMAIN uploads
         /\ uploads[pedidos[p].file_path[1]].pedido = p

\* The web shell with its threads scheduled.  A worker that can take a step
\* eventually takes one (thread.start() of web/app.py lines 366-368), and
\* crew.kickoff returns or raises, which is the one step "kickoff".  A
\* request handler is straight-line code on the thread of its request: a
\* step of the request p is possible exactly when p has arrived and is not
\* at "fim" or "lancou", and no handler takes infinitely many steps, so weak
\* fairness of the steps of p is that p, once arrived, is again and again
\* found at "fim" or "lancou".
SpecWebJusta ==
  /\ SpecWeb
  /\ WF_vars(analise_worker)
  /\ \A p \in 1..MaxPedidos :
       []<>(p > Len(pedidos) \/ pedidos[p].pc \in {"fim", "lancou"})

(***************************************************************************)
(* C26: an analysis that is in analises_ativas eventually has the status   *)
(* concluida or erro, when the threads are scheduled and the agent         *)
(* pipeline returns or raises.                                             *)
(***************************************************************************)
C26_TodaAnaliseTermina ==
  \A a \in 1..MaxPedidos :
    [](a \in Analises => <>(a \in Analises /\ analises_ativas[a].status \in Terminais))

(***************************************************************************)
(* The shared auditor under concurrency.  The threads of a web process,    *)
(* request handlers and workers, call the one auditor_global: some record  *)
(* an event, as analise_worker does with finalizar_analise and             *)
(* registrar_erro (web/app.py lines 347 and 355), and some ask for the     *)
(* statistics.  pedidos holds the frame of each thread; _lock is the       *)
(* thread inside `with self._lock` (0: nobody) and aquisicoes the threads  *)
(* in the order they acquired it.  A step is what a thread does between    *)
(* two accesses to the lock or to the list of events.                      *)
(***************************************************************************)
MaxThreads == 3

\* auditar_evento entering its with block whether or not the lock is free.
auditar_evento_SemExclusao ==
  \E t \in 1..Len(pedidos) :
    \/ /\ pedidos[t].rota = "auditar_evento"
       /\ pedidos[t].pc = "chamar"
       /\ _lock' = t
       /\ aquisicoes' = Append(aquisicoes, t)
       /\ pedidos' = [pedidos EXCEPT ![t].pc = "dentro"]
       /\ UNCHANGED <<servidor, relogio, analises_ativas, workers, uploads,
                      varsValidador, varsBusca, varsAuditor>>
    \/ /\ pedidos[t].rota = "auditar_evento"
       /\ pedidos[t].pc = "dentro"
       /\ IF pedidos[t].metodo = "finalizar_analise"
          THEN Registrar(1, "finalizar_analise", "resultado_analise", "INFO", <<>>,
                         <<[sucesso |-> TRUE,
                            resultados_resumo |-> [analise_id |-> t]]>>,
                         <<>>, DictVazio)
          ELSE Registrar(1, "registrar_erro", "erro_sistema", "ERROR",
                         <<[erro_tipo |-> "Exception", erro_mensagem |-> "mensagem",
                            contexto |-> <<"analise", t>>]>>,
                         <<>>, <<>>, DictVazio)
       /\ _lock' = 0
       /\ pedidos' = [pedidos EXCEPT ![t].pc = "fim"]
       /\ UNCHANGED <<servidor, relogio, analises_ativas, workers, uploads, aquisicoes>>

\* auditar_evento (academic_logger.py lines 107-163) called by the thread t
\* through finalizar_analise or registrar_erro, with the number of the
\* thread where the worker puts the analysis id:
\*   "chamar"  line 117, `with self._lock`: the thread waits until the lock
\*             is free and takes it;
\*   "dentro"  lines 118-163 and the release of the lock when the with
\*             block is left, by return or by exception.
auditar_evento ==
  \E t \in 1..Len(pedidos) :
    \/ /\ pedidos[t].rota = "auditar_evento"
       /\ pedidos[t].pc = "chamar"
       /\ _lock = 0
       /\ _lock' = t
       /\ aquisicoes' = Append(aquisicoes, t)
       /\ pedidos' = [pedidos EXCEPT ![t].pc = "dentro"]
       /\ UNCHANGED <<servidor, relogio, analises_ativas, workers, uploads,
                      varsValidador, varsBusca, varsAuditor>>
    \/ /\ pedidos[t].rota = "auditar_evento"
       /\ pedidos[t].pc = "dentro"
       /\ IF pedidos[t].metodo = "finalizar_analise"
          THEN Registrar(1, "finalizar_analise", "resultado_analise", "INFO", <<>>,
                         <<[sucesso |-> TRUE,
                            resultados_resumo |-> [analise_id |-> t]]>>,
                         <<>>, DictVazio)
          ELSE Registrar(1, "registrar_erro", "erro_sistema", "ERROR",
                         <<[erro_tipo |-> "Exception", erro_mensagem |-> "mensagem",
                            contexto |-> <<"analise", t>>]>>,
                         <<>>, <<>>, DictVazio)
       /\ _lock' = 0
       /\ pedidos' = [pedidos EXCEPT ![t].pc = "fim"]
       /\ UNCHANGED <<servidor, relogio, analises_ativas, workers, uploads, aquisicoes>>

\* get_estatisticas_auditoria (lines 204-212) called by the thread t; it
\* takes no lock:
\*   "len"     line 207, len(self._eventos_auditoria);
\*   "agrupar" lines 216-220, one turn of the for loop: the list iterator
\*             gives the next element while its index is below the length
\*             the list has at that moment, and the dict is returned when
\*             it is not.
estatisticas_auditoria ==
  \E t \in 1..Len(pedidos) :
    LET eventos == auditores[1]._eventos_auditoria
        f == pedidos[t]
    IN
    \/ /\ f.rota = "get_estatisticas_auditoria"
       /\ f.pc = "len"
       /\ pedidos' = [pedidos EXCEPT ![t].pc = "agrupar",
                                     ![t].total_eventos = Len(eventos)]
       /\ UNCHANGED <<servidor, relogio, analises_ativas, workers, uploads, _lock,
                      aquisicoes, varsValidador, varsBusca, varsAuditor>>
    \/ /\ f.rota = "get_estatisticas_auditoria"
       /\ f.pc = "agrupar"
       /\ pedidos' =
            IF f.indice < Len(eventos)
            THEN LET tipo == Get(eventos[f.indice + 1], "evento_tipo", "desconhecido") IN
                 [pedidos EXCEPT
                    ![t].indice = @ + 1,
                    ![t].eventos_por_tipo =
                       Atualizar(@, [k \in {tipo} |-> Get(f.eventos_por_tipo, tipo, 0) + 1])]
            ELSE [pedidos EXCEPT ![t].pc = "fim"]
       /\ UNCHANGED <<servidor, relogio, analises_ativas, workers, uploads, _lock,
                      aquisicoes, varsValidador, varsBusca, varsAuditor>>

\* A web process with its auditor_global built and MaxThreads threads about
\* to call it, each to record an event or to read the statistics.
InitThreads ==
  /\ config = config_padrao
  /\ ValidadorOcioso
  /\ BuscaOciosa
  /\ servidor = "web/app.py"
  /\ \E ambiente \in Ambientes :
       /\ config_log = ambiente.config
       /\ loggers = _setup_logging(LoggersIniciais(ambiente.raiz)).loggers
       /\ auditores =
            <<[sessao_id |-> 1, usuario_id |-> "sistema",
               atributos |-> _setup_logging(LoggersIniciais(ambiente.raiz)).atributos,
               _eventos_auditoria |-> <<>>]>>
  /\ registros = <<>>
  /\ arquivo_audit = <<>>
  /\ arquivo_log = <<>>
  /\ chamada = Chamada("__init__", 1, "", "nenhuma", <<>>)
  /\ relogio = 0
  /\ pedidos \in
       [1..MaxThreads ->
          {[rota |-> "auditar_evento", pc |-> "chamar", metodo |-> "finalizar_analise"],
           [rota |-> "auditar_evento", pc |-> "chamar", metodo |-> "registrar_erro"],
           [rota |-> "get_estatisticas_auditoria", pc |-> "len", total_eventos |-> 0,
            indice |-> 0, eventos_por_tipo |-> DictVazio]}]
  /\ analises_ativas = DictVazio
  /\ workers = DictVazio
  /\ uploads = DictVazio
  /\ _lock = 0
  /\ aquisicoes = <<>>

NextThreads ==
  \/ auditar_evento
  \/ estatisticas_auditoria

SpecThreads == InitThreads /\ [][NextThreads]_vars

(***************************************************************************)
(* Vocabulary of the properties of the shared auditor.                     *)
(***************************************************************************)
\* The thread whose call recorded the event.
Autor(evento_data) ==
  IF evento_data.evento_tipo = "erro_sistema"
  THEN evento_data.dados_entrada.contexto[2]
  ELSE evento_data.dados_saida.resultados_resumo.analise_id

\* The sum of the counts of eventos_por_tipo.
SomaContagens(d) ==
  LET RECURSIVE Soma(_)
      Soma(ks) == IF ks = {} THEN 0
                  ELSE LET k == CHOOSE x \in ks : TRUE IN d[k] + Soma(ks \ {k})
  IN Soma(DOMAIN d)

Leitores == {t \in 1..Len(pedidos) : pedidos[t].rota = "get_estatisticas_auditoria"}

Escritores == {t \in 1..Len(pedidos) : pedidos[t].rota = "auditar_evento"}

(***************************************************************************)
(* C28: in the result of every call of get_estatisticas_auditoria,         *)
(* total_eventos is the sum of the counts of eventos_por_tipo, whatever    *)
(* the other threads recorded during the call.                             *)
(***************************************************************************)
C28_EstatisticasConsistentes ==
  \A t \in Leitores :
    pedidos[t].pc = "fim" =>
      pedidos[t].total_eventos = SomaContagens(pedidos[t].eventos_por_tipo)

(***************************************************************************)
(* C29: the list of events holds one event for each call that has left     *)
(* the with block and none for any other, and the authors of its events,   *)
(* in the order of the list, are the threads in the order they acquired    *)
(* the lock.                                                               *)
(***************************************************************************)
C29_UmEventoPorChamada ==
  LET eventos == auditores[1]._eventos_auditoria IN
  /\ \A t \in Escritores :
       Cardinality({k \in 1..Len(eventos) : Autor(eventos[k]) = t})
         = IF pedidos[t].pc = "fim" THEN 1 ELSE 0
  /\ Len(eventos) <= Len(aquisicoes)
  /\ \A k \in 1..Len(eventos) : Autor(eventos[k]) = aquisicoes[k]
  /\ Len(aquisicoes) - Len(eventos) = IF _lock = 0 THEN 0 ELSE 1

\* Three threads have recorded their events, the third before the first,
\* and the list holds the three events in the order of the lock.
C29_Witness ==
  /\ Escritores = {1, 2, 3}
  /\ \A t \in Escritores : pedidos[t].pc = "fim"
  /\ aquisicoes = <<3, 1, 2>>
  /\ Len(auditores[1]._eventos_auditoria) = 3
  /\ Autor(auditores[1]._eventos_auditoria[1]) = 3

====
